---- MODULE Spec2Model ----
(***************************************************************************)
(* A model of thunder/core/jit_ext.py: the wrap callback and the getattr   *)
(* lookaside that create proxies and record constraints while a function   *)
(* is interpreted, the discovery of the computation's inputs, the          *)
(* synthesis of the prologue trace from the provenance of those inputs,    *)
(* the hoist of the unpack symbols in the computation trace, and the       *)
(* scoped interpreter context.                                             *)
(***************************************************************************)
EXTENDS Integers, Sequences, FiniteSets, TLC

VARIABLES
    pc,             \* position of meso_thunder_interpreter: "start", "interp", "done", "error"
    err,            \* the exception that ended the call ("" when none)
    proxies,        \* every Proxy object created so far: <<[name, ty, hist]>>, indexed by identity
    wrapped,        \* the WrappedValues handed to the wrap callback: <<[val, proxy, by]>>,
                    \* proxy the proxy registered on the value (0 when none) and by the
                    \* function that registered it
    constraints,    \* ctx._constraints
    comp_names,     \* the names of the computation trace
    computation,    \* computation_trace.bound_symbols
    emitted,        \* the bound symbols of the computation trace when interpretation ended
    comp_inputs,    \* computation_inputs (proxy identities)
    prologue,       \* prologue_trace.bound_symbols
    pro_names,      \* the names of the prologue trace
    pro_outputs,    \* prologue_outputs
    comp_sig,       \* the signature of the computation trace: the names of its _siginfo
                    \* and its args
    warnings,       \* number of warnings issued
    cv,             \* the value of the context variable _minimal_ctx
    frames,         \* the entry calls in progress, innermost last
    cache_option,   \* what get_cache_option() gave the last call of meso_thunder_interpreter
    ret,            \* the last call of a callback or lookaside: its argument, whether it
                    \* emitted a sharp-edge event, and what it returned
    se,             \* the last call of stack_effect_detail: its arguments and its result
    gen,            \* the last call of generate_function: the graph, address_map and bc
    sg,             \* the graph split_block works on, and its last call
    fu              \* the last call of _fuse: the trace and what the fusion was given

vars == <<pc, err, proxies, wrapped, constraints, comp_names, computation,
          emitted, comp_inputs, prologue, pro_names, pro_outputs, comp_sig, warnings,
          cv, frames, cache_option, ret, se, gen, sg,
          fu>>

\* The variables of thunder/core/jit_ext.py and those of the other modules.
jit_vars == <<pc, err, proxies, wrapped, constraints, comp_names, computation,
              emitted, comp_inputs, prologue, pro_names, pro_outputs, comp_sig, warnings,
              cv, frames, cache_option, ret>>
rest_vars == <<se, gen, sg, fu>>

compile_vars == <<pc, err, proxies, wrapped, constraints, comp_names,
                  computation, emitted, comp_inputs, prologue, pro_names, pro_outputs,
                  comp_sig, warnings>>

(***************************************************************************)
(* Bounds of the model.                                                    *)
(***************************************************************************)
MaxWraps == 2       \* values wrapped during one interpretation
MaxSyms == 1        \* primitive calls traced during one interpretation
MaxDepth == 2       \* entry calls nested inside one another
MaxWarnings == 1    \* warnings counted while entry calls nest
MaxOparg == 17      \* the largest small argument of an instruction
MaxBlocks == 2      \* blocks of a graph handed to generate_function
MaxBody == 1        \* nodes of a block before its last node
MaxSplits == 3      \* successful calls of split_block on one graph
MaxFuseSyms == 2    \* symbols of a trace handed to _fuse
MaxOutputs == 3     \* flattened outputs of a trace handed to _fuse

(***************************************************************************)
(* Values that appear in traces: a proxy (by identity) or a literal.       *)
(***************************************************************************)
Range(seq) == {seq[i] : i \in DOMAIN seq}
Last(seq) == seq[Len(seq)]

PX(id) == [k |-> "proxy", id |-> id, lit |-> ""]
Lit(k, s) == [k |-> k, id |-> 0, lit |-> s]
NoVal == Lit("none", "")
IsProxy(v) == v.k = "proxy"

(***************************************************************************)
(* The provenance records of one interpretation.  A record is identified   *)
(* by its index (records are compared by identity when the prologue is     *)
(* synthesized: the memo is an attribute set on the record object).        *)
(*   a = args[0]; a.a; a.a.a; k = kwargs["a"]; k.a; fn;                    *)
(*   tuple.__getitem__(a, 0) and descriptor.__get__(a, type) as OPAQUE     *)
(*   calls; an attribute of the latter; a host opcode; a float constant.   *)
(* The argument tuple of an OPAQUE call lists the provenances of the       *)
(* arguments last first, as from_opaque reads them.                        *)
(***************************************************************************)
PR(inst, inputs, value) == [inst |-> inst, inputs |-> inputs, value |-> value]

Prov == <<
    PR("INPUT_ARGS", <<>>, NoVal),                                  \* 1
    PR("INPUT_KWARGS", <<>>, NoVal),                                \* 2
    PR("INPUT_FN", <<>>, NoVal),                                    \* 3
    PR("CONSTANT", <<>>, Lit("int", "0")),                          \* 4
    PR("CONSTANT", <<>>, Lit("str", "a")),                          \* 5
    PR("BINARY_SUBSCR", <<1, 4>>, NoVal),                           \* 6  args[0]
    PR("LOAD_ATTR", <<6, 5>>, NoVal),                               \* 7  args[0].a
    PR("LOAD_ATTR", <<7, 5>>, NoVal),                               \* 8  args[0].a.a
    PR("BINARY_SUBSCR", <<2, 5>>, NoVal),                           \* 9  kwargs["a"]
    PR("LOAD_ATTR", <<9, 5>>, NoVal),                               \* 10 kwargs["a"].a
    PR("CONSTANT", <<>>, Lit("float", "1.5")),                      \* 11
    PR("CONSTANT", <<>>, Lit("fn", "__getitem__")),                 \* 12
    PR("BUILD_TUPLE", <<4, 6>>, NoVal),                             \* 13 (args[0], 0)
    PR("OPAQUE", <<12, 13>>, NoVal),                                \* 14 args[0].__getitem__(0)
    PR("CONSTANT", <<>>, Lit("fn", "GetSetDescriptorType.__get__")),\* 15
    PR("CONSTANT", <<>>, Lit("descr", "a")),                        \* 16
    PR("BUILD_TUPLE", <<11, 6, 16>>, NoVal),                        \* 17 (descr, args[0], _)
    PR("OPAQUE", <<15, 17>>, NoVal),                                \* 18 descr.__get__(args[0])
    PR("LOAD_ATTR", <<18, 5>>, NoVal),                              \* 19 (descr.__get__(args[0])).a
    PR("BINARY_ADD", <<6, 4>>, NoVal),                              \* 20 args[0] + 0
    PR("OPAQUE", <<7, 13>>, NoVal),                                 \* 21 args[0].a(args[0], 0)
    PR("CONSTANT", <<>>, Lit("fn", "__len__")),                     \* 22
    PR("OPAQUE", <<22, 13>>, NoVal),                                \* 23 args[0].__len__(..)
    PR("BINARY_SUBSCR", <<1, 6>>, NoVal),                           \* 24 args[args[0]]
    PR("BINARY_SUBSCR", <<6, 4>>, NoVal),                           \* 25 args[0][0]
    PR("LOAD_ATTR", <<14, 5>>, NoVal)                               \* 26 args[0].__getitem__(0).a
>>

Records == DOMAIN Prov

\* The CONSTANT record from_opaque creates for the name of a descriptor.
NameConstant(name) == CHOOSE r \in Records :
    Prov[r].inst = "CONSTANT" /\ Prov[r].value = Lit("str", name)

(***************************************************************************)
(* Bound symbols.  rec is the provenance record on whose behalf a symbol   *)
(* of the prologue is emitted (0 for the others); it is bookkeeping of the *)
(* model and no field of a BoundSymbol.                                    *)
(***************************************************************************)
Sym(op, args, out, rec) == [op |-> op, args |-> args, out |-> out, rec |-> rec]

UnpackOps == {"unpack_trivial", "unpack_attr", "unpack_getitem", "unpack_function_obj"}

\* The result of a step of the synthesizer: the state after it and the value returned.
R(st, res) == [st |-> st, res |-> res]
Raise(st, e) == [st EXCEPT !.err = e]

\* prologue_trace.bound_symbols.append(bsym)
append(st, bsym) == [st EXCEPT !.trace = Append(@, bsym)]

\* Proxy(name=...) while the prologue trace is the current trace: the name is
\* registered in the trace, and a name the trace already holds is rejected.
Proxy(st, name) ==
    IF name \in st.names
    THEN Raise(st, "ValueError")
    ELSE [st EXCEPT !.names = @ \cup {name},
                    !.proxies = Append(@, [name |-> name, ty |-> "plain", hist |-> 0])]

\* Every unpacker below is written as the source's steps in order, each step an
\* operator applied to the result of the step before it.

\* output = Proxy(name) if new_output else p
make_output(st, name, new_output) == IF new_output THEN Proxy(st, name) ELSE st
output_of(st, new_output, p) == IF new_output THEN PX(Len(st.proxies)) ELSE PX(p)

\* bsym = prims.<op>.bind(*args, output=output); bound_symbols.append(bsym); return output
\* (supported is the condition under which the unpacker binds instead of raising)
bind(st, op, args, r, new_output, p, supported) ==
    IF st.err # "" THEN R(st, NoVal)
    ELSE IF ~supported THEN R(Raise(st, "NotImplementedError"), NoVal)
    ELSE R(append(st, Sym(op, args, output_of(st, new_output, p), r)),
           output_of(st, new_output, p))

input_name(inst) ==
    CASE inst = "INPUT_ARGS" -> "args"
      [] inst = "INPUT_KWARGS" -> "kwargs"
      [] inst = "INPUT_FN" -> "fn"

input_op(inst) == IF inst = "INPUT_FN" THEN "unpack_function_obj" ELSE "unpack_trivial"

\* provenance.proxy = output, then the bind of unpack_trivial or unpack_function_obj
bind_input(st, r, new_output, p) ==
    IF st.err # "" THEN R(st, NoVal)
    ELSE bind([st EXCEPT !.memo[r] = output_of(st, new_output, p)],
              input_op(Prov[r].inst), <<output_of(st, new_output, p)>>,
              r, new_output, p, TRUE)

from_input(st, r, new_output, p) ==
    bind_input(make_output(st, input_name(Prov[r].inst), new_output), r, new_output, p)

\* An unpacker that inlines a constant of any type.
from_constant_any_type(st, r, new_output, p) == R(st, Prov[r].value)

from_constant(st, r, new_output, p) ==
    IF Prov[r].value.k \in {"int", "str"}
    THEN R(st, Prov[r].value)
    ELSE R(Raise(st, "NotImplementedError"), NoVal)

RECURSIVE from_provenance(_, _, _, _)
RECURSIVE from_each(_, _, _, _)
RECURSIVE from_load_attr(_, _, _, _, _)
RECURSIVE from_binary_subscr(_, _, _, _, _)
RECURSIVE from_opaque(_, _, _, _)

\* [from_provenance(i, new_output=True) for i in inputs]
from_rest(x, inputs, p, acc) == from_each(x.st, Tail(inputs), p, Append(acc, x.res))

from_each(st, inputs, p, acc) ==
    IF inputs = <<>> \/ st.err # "" THEN R(st, acc)
    ELSE from_rest(from_provenance(st, Head(inputs), TRUE, p), inputs, p, acc)

\* from_load_attr once its inputs are unpacked (x)
bind_load_attr(x, r, new_output, p) ==
    IF x.st.err # "" THEN R(x.st, NoVal)
    ELSE bind(make_output(x.st, "obj", new_output), "unpack_attr",
              <<x.res[1], x.res[2]>>, r, new_output, p, TRUE)

\* r is the record being unpacked; inputs are the inputs of the LOAD_ATTR record
\* (r's own, or those of the record from_opaque builds in r's place).
from_load_attr(st, r, inputs, new_output, p) ==
    bind_load_attr(from_each(st, inputs, p, <<>>), r, new_output, p)

\* from_binary_subscr once its inputs are unpacked (x): obj, idx = inputs
bind_binary_subscr(x, r, new_output, p) ==
    IF x.st.err # "" THEN R(x.st, NoVal)
    ELSE bind(make_output(x.st, "subscr", new_output), "unpack_getitem",
              <<x.res[1], x.res[2]>>, r, new_output, p, x.res[2].k \in {"int", "str"})

from_binary_subscr(st, r, inputs, new_output, p) ==
    bind_binary_subscr(from_each(st, inputs, p, <<>>), r, new_output, p)

\* The two rewrites build a fresh record and call from_provenance on it: a fresh
\* record has no proxy attribute and its tag is in the dispatch table, so the call
\* is the call of the unpacker of the new tag on the new inputs.
\* A rewrite that reads the arguments as obj, idx.
opaque_getitem_obj_first(st, r, args, new_output, p) ==
    from_binary_subscr(st, r, <<args.inputs[1], args.inputs[2]>>, new_output, p)

opaque_getitem(st, r, args, new_output, p) ==
    \* idx, obj = args.inputs; BINARY_SUBSCR with inputs=[obj, idx]
    from_binary_subscr(st, r, <<args.inputs[2], args.inputs[1]>>, new_output, p)

opaque_descriptor_get(st, r, args, new_output, p) ==
    IF Len(args.inputs) # 3 \/ Prov[args.inputs[3]].inst # "CONSTANT"
       \/ Prov[args.inputs[3]].value.k # "descr"
    THEN R(Raise(st, "AssertionError"), NoVal)
    ELSE \* LOAD_ATTR with inputs=[args.inputs[1], CONSTANT(name)]; new_output is not passed on
         from_load_attr(st, r,
             <<args.inputs[2], NameConstant(Prov[args.inputs[3]].value.lit)>>, FALSE, p)

from_opaque_call(st, r, fn, args, new_output, p) ==
    IF fn.inst # "CONSTANT" THEN R(Raise(st, "NotImplementedError"), NoVal)
    ELSE IF fn.value.lit = "__getitem__" THEN opaque_getitem(st, r, args, new_output, p)
    ELSE IF fn.value.lit = "GetSetDescriptorType.__get__"
    THEN opaque_descriptor_get(st, r, args, new_output, p)
    ELSE R(Raise(st, "NotImplementedError"), NoVal)

from_opaque(st, r, new_output, p) ==
    from_opaque_call(st, r, Prov[Prov[r].inputs[1]], Prov[Prov[r].inputs[2]], new_output, p)

\* res = unpack_fn(provenance, new_output=new_output); provenance.proxy = res
set_proxy(x, r) ==
    IF x.st.err # "" THEN x ELSE R([x.st EXCEPT !.memo[r] = x.res], x.res)

dispatch(st, r, inst, new_output, p) ==
    CASE inst \in {"INPUT_ARGS", "INPUT_KWARGS", "INPUT_FN"} -> from_input(st, r, new_output, p)
      [] inst = "LOAD_ATTR" -> from_load_attr(st, r, Prov[r].inputs, new_output, p)
      [] inst = "CONSTANT" -> from_constant(st, r, new_output, p)
      [] inst = "BINARY_SUBSCR" -> from_binary_subscr(st, r, Prov[r].inputs, new_output, p)
      [] inst = "OPAQUE" -> from_opaque(st, r, new_output, p)
      [] OTHER -> R(Raise(st, "NotImplementedError"), NoVal)

\* if hasattr(provenance, "proxy"): return provenance.proxy
from_provenance(st, r, new_output, p) ==
    IF st.memo[r] # NoVal THEN R(st, st.memo[r])
    ELSE set_proxy(dispatch(st, r, Prov[r].inst, new_output, p), r)

\* The arguments of assert_tensor_metadata after the proxy are fields of the proxy.
TensorMetadata == <<Lit("meta", "shape"), Lit("meta", "device"), Lit("meta", "dtype"),
                    Lit("meta", "requires_grad")>>

\* unpack after from_provenance(p.history) has returned x:
\* already_unpacked[id(p)] = p, then the guard of a TensorProxy
unpacked(x, p) ==
    IF x.st.err # "" THEN x.st
    ELSE IF x.st.proxies[p].ty = "tensor"
    THEN append([x.st EXCEPT !.already_unpacked = @ \cup {p}],
                Sym("assert_tensor_metadata", <<PX(p)>> \o TensorMetadata, NoVal, 0))
    ELSE [x.st EXCEPT !.already_unpacked = @ \cup {p}]

unpack(st, p) ==
    IF st.err # "" THEN st
    ELSE IF st.proxies[p].hist = 0 THEN Raise(st, "AssertionError")
    ELSE IF p \in st.already_unpacked THEN st
    ELSE unpacked(from_provenance([st EXCEPT !.names = @ \cup {st.proxies[p].name}],
                                  st.proxies[p].hist, FALSE, p), p)

RECURSIVE unpack_all(_, _)
\* for v in inputs: prologue_outputs.append(unpack(v))
unpack_all(st, inputs) ==
    IF inputs = <<>> THEN st ELSE unpack_all(unpack(st, Head(inputs)), Tail(inputs))

\* for a in args: if isinstance(a, Proxy): unpack(a)
RECURSIVE unpack_args(_, _)
unpack_args(st, args) ==
    IF args = <<>> THEN st
    ELSE unpack_args(IF IsProxy(Head(args)) THEN unpack(st, Head(args).id) ELSE st,
                     Tail(args))

\* prim(*args)
guard(st, c) == IF st.err # "" THEN st ELSE append(st, Sym(c.prim, c.args, NoVal, 0))

\* for prim, *args in ctx._constraints: ...
RECURSIVE replay_constraints(_, _)
replay_constraints(st, cs) ==
    IF cs = <<>> \/ st.err # "" THEN st
    ELSE replay_constraints(guard(unpack_args(st, Head(cs).args), Head(cs)), Tail(cs))

ProxySeq(ids) == [i \in DOMAIN ids |-> PX(ids[i])]

\* A return that also hands back the proxies unpacked only for a constraint.
python_return_everything(st, outputs) ==
    IF st.err # "" THEN st
    ELSE append(st, Sym("python_return",
             ProxySeq(outputs \o
                 [i \in 1..Cardinality(st.already_unpacked \ Range(outputs)) |->
                     CHOOSE x \in st.already_unpacked \ Range(outputs) :
                         Cardinality({y \in st.already_unpacked \ Range(outputs) : y < x}) = i - 1]),
             NoVal, 0))

\* prims.python_return(prologue_outputs)
python_return(st, outputs) ==
    IF st.err # "" THEN st ELSE append(st, Sym("python_return", ProxySeq(outputs), NoVal, 0))

\* The state of the synthesis when unpack_inputs is entered.
EmptyPrologue(prx) ==
    [trace |-> <<>>, names |-> {}, memo |-> [r \in Records |-> NoVal],
     already_unpacked |-> {}, proxies |-> prx, err |-> ""]

unpack_inputs(cs, prx, inputs) ==
    python_return(replay_constraints(unpack_all(EmptyPrologue(prx), inputs), cs), inputs)

(***************************************************************************)
(* get_computation_inputs.  A Variable compares by the name of its proxy.  *)
(***************************************************************************)
flat_variableified_proxy_args(bsym) == SelectSeq(bsym.args, IsProxy)

RECURSIVE all_proxy_args(_)
all_proxy_args(bsyms) ==
    IF bsyms = <<>> THEN <<>>
    ELSE flat_variableified_proxy_args(Head(bsyms)) \o all_proxy_args(Tail(bsyms))

RECURSIVE collect_inputs(_, _, _)
collect_inputs(vs, prx, inputs_list) ==
    IF vs = <<>> THEN inputs_list
    ELSE LET v == Head(vs).id
             seen == \E i \in DOMAIN inputs_list : prx[inputs_list[i]].name = prx[v].name
         IN  collect_inputs(Tail(vs), prx,
                 IF prx[v].hist # 0 /\ ~seen THEN Append(inputs_list, v) ELSE inputs_list)

\* A walk that appends a proxy at each of its uses.
get_computation_inputs_every_use(bsyms, prx) ==
    [i \in DOMAIN SelectSeq(all_proxy_args(bsyms), LAMBDA v : prx[v.id].hist # 0) |->
        SelectSeq(all_proxy_args(bsyms), LAMBDA v : prx[v.id].hist # 0)[i].id]

get_computation_inputs(bsyms, prx) == collect_inputs(all_proxy_args(bsyms), prx, <<>>)

(***************************************************************************)
(* The hoist: bsyms[-n:] + bsyms[:-n] with Python's slices (-0 is 0).      *)
(***************************************************************************)
LastSlice(bsyms, n) == IF n = 0 THEN bsyms ELSE SubSeq(bsyms, Len(bsyms) - n + 1, Len(bsyms))
\* A slice that reads -0 as the end of the list.
FrontSliceToEnd(bsyms, n) == SubSeq(bsyms, 1, Len(bsyms) - n)

FrontSlice(bsyms, n) == IF n = 0 THEN <<>> ELSE SubSeq(bsyms, 1, Len(bsyms) - n)

unpack_trivial_symbols(outs) ==
    [i \in DOMAIN outs |-> Sym("unpack_trivial", <<PX(outs[i])>>, PX(outs[i]), 0)]

\* No rotation: the hoisted symbols stay behind the return.
rotate_nothing(bsyms, n) == FrontSlice(bsyms, n) \o LastSlice(bsyms, n)

rotate(bsyms, n) == LastSlice(bsyms, n) \o FrontSlice(bsyms, n)

\* The names SigInfo("computation") is given for the inputs, in reverse.
siginfo_args_reversed(computation_inputs, prx) ==
    [i \in DOMAIN computation_inputs |->
        prx[computation_inputs[Len(computation_inputs) + 1 - i]].name]

\* si.args = [(v.proxy.name, None) for v in computation_inputs]
siginfo_args(computation_inputs, prx) ==
    [i \in DOMAIN computation_inputs |-> prx[computation_inputs[i]].name]

\* computation_trace._siginfo = si; computation_trace.args = prologue_outputs
Signature(computation_inputs, prologue_outputs, prx) ==
    [si_args |-> siginfo_args(computation_inputs, prx), args |-> prologue_outputs]

NoSig == [si_args |-> <<>>, args |-> <<>>]

hoist(bsyms, outs) == rotate(bsyms \o unpack_trivial_symbols(outs), Len(outs))

(***************************************************************************)
(* The interpreter context.  _minimal_ctx holds a context object or        *)
(* nothing; set returns a token that remembers the value it replaced and   *)
(* reset puts that value back.                                             *)
(***************************************************************************)
Levels == {"ALLOW", "WARN", "ERROR"}
NoCtx == [id |-> 0, sharp_edges |-> "unset"]
MesoCtx(id, level) == [id |-> id, sharp_edges |-> level]

\* _minimal_ctx.set(ctx): the new value and the token
set_minimal_ctx(cur, ctx) == [value |-> ctx, tok |-> [old_value |-> cur]]
\* A reset that leaves the context variable as it is.
reset_skipped(cur, tok) == cur

\* _minimal_ctx.reset(token)
reset_minimal_ctx(cur, tok) == tok.old_value

\* An entry call in progress: the context it installed, the token of the set, and
\* the value the context variable held when the call was made.
Frame(kind, s, before) == [kind |-> kind, ctx |-> s.value, tok |-> s.tok, before |-> before]

CacheOptions == {"CONSTANT_VALUES", "NO_CACHING", "SAME_INPUT", "SYMBOLIC_VALUES"}
\* A check that also lets SAME_INPUT through.
cache_option_supported_same_input(co) ==
    co \in {"CONSTANT_VALUES", "NO_CACHING", "SAME_INPUT"}

cache_option_supported(co) == co \in {"CONSTANT_VALUES", "NO_CACHING"}

(***************************************************************************)
(* The values the interpreter wraps: the type of the unwrapped value,      *)
(* whether it is already a Proxy, its provenance record, and its literal   *)
(* (for a number or a string).                                             *)
(***************************************************************************)
Val(ty, is_proxy, prov, lit) == [ty |-> ty, is_proxy |-> is_proxy, prov |-> prov, lit |-> lit]

Values == {
    Val("tensor", FALSE, 6, ""),        \* args[0]
    Val("tensor", FALSE, 7, ""),        \* args[0].a
    Val("tensor", FALSE, 14, ""),       \* args[0].__getitem__(0)
    Val("tensor", FALSE, 19, ""),       \* an attribute of a descriptor's value
    Val("tensor", FALSE, 11, ""),       \* a constant tensor
    Val("tensor", FALSE, 21, ""),       \* returned by an opaque call of a loaded function
    Val("tensor", FALSE, 23, ""),       \* returned by another opaque call
    Val("tensor", FALSE, 24, ""),       \* args indexed by an input
    Val("tensor", FALSE, 26, ""),       \* an attribute of what an opaque __getitem__ gave
    Val("int", FALSE, 9, "7"),          \* kwargs["a"]
    Val("str", FALSE, 10, "s"),         \* kwargs["a"].a
    Val("int", FALSE, 14, "7"),         \* a number returned by an opaque call
    Val("int", FALSE, 20, "7"),         \* a number computed by a host opcode
    Val("int", FALSE, 4, "0"),          \* a literal
    Val("int", TRUE, 20, ""),           \* a NumberProxy
    Val("callable", FALSE, 3, ""),      \* the function
    Val("tuple", FALSE, 1, ""),         \* args
    Val("object", FALSE, 7, "")         \* an object of another type
}

RECURSIVE collect_provenance_inst(_)
collect_provenance_inst(pr) ==
    {Prov[pr].inst} \cup
    UNION {collect_provenance_inst(Prov[pr].inputs[i]) : i \in DOMAIN Prov[pr].inputs}

safe_provenance_inst ==
    {"INPUT_ARGS", "INPUT_KWARGS", "INPUT_FN", "LOAD_ATTR", "CONSTANT", "BINARY_SUBSCR"}

\* type(uvalue) in (tuple, list, dict, CellType, ModuleType, set)
BasicContainers == {"tuple", "list", "dict", "cell", "module", "set"}

\* The branch _lit_wrap_callback takes for a value:
\*   proxy: the kind of proxy it creates ("" when none),
\*   prim: the guard of the constraint it records ("" when none),
\*   edge: whether it calls _meso_sharp_edge.
\* An outcome that proxies and guards the value of a sharp edge as a number.
OutcomeProxiedEdge(proxy, prim, edge) ==
    [proxy |-> IF edge THEN "number" ELSE proxy,
     prim |-> IF edge THEN "check_number_type_and_value" ELSE prim,
     edge |-> edge]

Outcome(proxy, prim, edge) == [proxy |-> proxy, prim |-> prim, edge |-> edge]

\* A callback that guards a string with the number check.
lit_wrap_branch_number_guard(v) ==
    IF v.ty = "tensor" THEN Outcome("tensor", "check_tensor_shape_and_metadata", FALSE)
    ELSE IF Prov[v.prov].inst = "CONSTANT" THEN Outcome("", "", FALSE)
    ELSE IF v.ty = "callable" THEN Outcome("", "", FALSE)
    ELSE IF v.ty \in BasicContainers THEN Outcome("", "", FALSE)
    ELSE IF v.ty \in {"float", "int", "complex", "str"} /\ ~v.is_proxy
    THEN IF collect_provenance_inst(v.prov) \ safe_provenance_inst = {}
         THEN Outcome(IF v.ty = "str" THEN "string" ELSE "number",
                      "check_number_type_and_value", FALSE)
         ELSE Outcome("", "", TRUE)
    ELSE Outcome("", "", TRUE)

lit_wrap_branch(v) ==
    IF v.ty = "tensor" THEN Outcome("tensor", "check_tensor_shape_and_metadata", FALSE)
    ELSE IF Prov[v.prov].inst = "CONSTANT" THEN Outcome("", "", FALSE)
    ELSE IF v.ty = "callable" THEN Outcome("", "", FALSE)
    ELSE IF v.ty \in BasicContainers THEN Outcome("", "", FALSE)
    ELSE IF v.ty \in {"float", "int", "complex", "str"} /\ ~v.is_proxy
    THEN IF collect_provenance_inst(v.prov) \ safe_provenance_inst = {}
         THEN IF v.ty = "str" THEN Outcome("string", "check_string_value", FALSE)
              ELSE Outcome("number", "check_number_type_and_value", FALSE)
         ELSE Outcome("", "", TRUE)
    ELSE Outcome("", "", TRUE)

\* The arguments of the recorded constraint after the guard.
constraint_args(v, p) ==
    IF v.ty = "tensor" THEN <<PX(p)>> ELSE <<PX(p), Lit(v.ty, v.lit)>>

\* Names the trace mints for proxies created without a name.
AutoNames == <<"t0", "t1", "t2", "t3", "t4", "t5", "t6", "t7", "t8", "t9">>
make_name(n) == AutoNames[n + 1]

\* Attribute names the getattr lookaside is called with.
AttrNames == {"a", "args"}

(***************************************************************************)
(* Lookasides.  A callee is described by what the lookasides ask of it:    *)
(* sym, whether it is a Symbol or a function of the primitive library;     *)
(* entry, the substitute the explicit map of the lookaside holds for it    *)
(* ("" when none); dflt, what default_lookaside returns for it ("" for     *)
(* None); opaque, whether is_opaque holds; safe, whether it is in          *)
(* _safe_functions.  A lookaside is the callee itself (wrapped by          *)
(* jit_needs_wrap or not), a substitute, or None.                          *)
(***************************************************************************)
Callee(sym, entry, dflt, opaque, safe) ==
    [sym |-> sym, entry |-> entry, dflt |-> dflt, opaque |-> opaque, safe |-> safe]

Callees ==
    {Callee(sym, entry, dflt, opaque, safe) :
        sym \in BOOLEAN, entry \in {"", "map_substitute"}, dflt \in {"", "default_substitute"},
        opaque \in BOOLEAN, safe \in BOOLEAN}

None == [via |-> "none", target |-> "", needs_wrap |-> FALSE]
Itself(needs_wrap) == [via |-> "self", target |-> "callee", needs_wrap |-> needs_wrap]
Substitute(via, target) == [via |-> via, target |-> target, needs_wrap |-> FALSE]

\* default_lookaside(fn, *args, **kwargs)
default_lookaside(fn) == IF fn.dflt = "" THEN None ELSE Substitute("default", fn.dflt)

\* _minimal_lookaside
minimal_lookaside(fn) ==
    IF fn.sym THEN Itself(FALSE)
    ELSE IF fn.entry # "" THEN Substitute("map", fn.entry)
    ELSE default_lookaside(fn)

\* An identification that asks the explicit map first.
lit_lookaside_map_first(fn) ==
    IF fn.entry # "" THEN Substitute("map", fn.entry)
    ELSE IF fn.sym THEN Itself(TRUE)
    ELSE default_lookaside(fn)

\* lit_lookaside, the identification of the lookaside
lit_lookaside_identify(fn) ==
    IF fn.sym THEN Itself(TRUE)
    ELSE IF fn.entry # "" THEN Substitute("map", fn.entry)
    ELSE default_lookaside(fn)

\* A lookaside that does not ask whether the callee is safe.
lit_lookaside_edge_no_safe_set(fn) == lit_lookaside_identify(fn) = None /\ fn.opaque

\* lit_lookaside: whether it calls _meso_sharp_edge
lit_lookaside_edge(fn) == lit_lookaside_identify(fn) = None /\ fn.opaque /\ ~fn.safe

\* lit_lookaside: what it returns when it returns
lit_lookaside(fn) == lit_lookaside_identify(fn)

\* The proxy methods _lit_lookaside_map names one by one.
NumberProxyMethods ==
    {"NumberProxy.__add__", "NumberProxy.__bool__", "NumberProxy.__neg__",
     "NumberProxy.__sub__", "NumberProxy.__floordiv__", "NumberProxy.__le__",
     "NumberProxy.__ge__"}
TensorProxyMethods == {"TensorProxy.__add__", "TensorProxy.__mul__", "TensorProxy.__sub__"}
ProxyMethods == NumberProxyMethods \cup TensorProxyMethods

\* _lit_lookaside_map[meth]: the method the entry of a proxy method calls.  The
\* entries named one by one replace those get_methods_properties gave.
lit_lookaside_map(meth) ==
    CASE meth = "NumberProxy.__le__" -> "NumberProxy.__ge__"
      [] meth = "NumberProxy.__ge__" -> "NumberProxy.__le__"
      [] OTHER -> meth

\* A proxy method as a callee: a Python function, no symbol, with its entry in the map.
MethodCallee(meth) ==
    [sym |-> FALSE, entry |-> lit_lookaside_map(meth), dflt |-> "", opaque |-> FALSE,
     safe |-> FALSE, meth |-> meth]

(***************************************************************************)
(* Global loads.  globals_dict maps the names of the globals of the        *)
(* function to values; of a value the callbacks ask which object it is     *)
(* and whether it is a module.                                             *)
(***************************************************************************)
GlobalValue(id, is_module) == [id |-> id, is_module |-> is_module]

GlobalNames ==
    {"torch", "F", "bw_pre_hooks", "bw_hooks", "fw_hooks", "fw_pre_hooks",
     "get_langctx", "prop_lookaside_helper", "math", "some_global"}

globals_dict(name) ==
    CASE name = "torch" -> GlobalValue("torch", TRUE)
      [] name = "F" -> GlobalValue("torch.nn.functional", TRUE)
      [] name = "bw_pre_hooks" -> GlobalValue("_global_backward_pre_hooks", FALSE)
      [] name = "bw_hooks" -> GlobalValue("_global_backward_hooks", FALSE)
      [] name = "fw_hooks" -> GlobalValue("_global_forward_hooks", FALSE)
      [] name = "fw_pre_hooks" -> GlobalValue("_global_forward_pre_hooks", FALSE)
      [] name = "get_langctx" -> GlobalValue("get_langctx", FALSE)
      [] name = "prop_lookaside_helper" -> GlobalValue("prop_lookaside_helper", FALSE)
      [] name = "math" -> GlobalValue("math", TRUE)
      [] OTHER -> GlobalValue("a function of the user", FALSE)

\* A callback that lets every module through and nothing else.
lit_global_edge_modules(value) == ~value.is_module

\* _lit_global_callback: whether it calls _meso_sharp_edge
lit_global_edge(value) ==
    ~(\/ value.id = "torch"
      \/ value.id = "_global_backward_pre_hooks"
      \/ value.id = "_global_backward_hooks"
      \/ value.id = "_global_forward_hooks"
      \/ value.id = "_global_forward_pre_hooks"
      \/ value.id = "torch.nn.functional"
      \/ value.id = "get_langctx"
      \/ value.id = "prop_lookaside_helper")

\* _minimal_global_callback: whether it calls _sharp_edge
minimal_global_edge(value) == ~value.is_module

\* A sharp edge that also raises under WARN.
sharp_edge_effect_strict(level) ==
    IF level \in {"ERROR", "WARN"} THEN "raise" ELSE "none"

\* _sharp_edge / _meso_sharp_edge: what a sharp edge does under a level
sharp_edge_effect(level) ==
    IF level = "ERROR" THEN "raise" ELSE IF level = "WARN" THEN "warn" ELSE "none"

\* What is kept of a call of a callback or lookaside: op the function, arg its
\* argument, edge whether it emitted a sharp-edge event, res what it returned
\* ("raised" when the event aborted it under level), diag what the message of the
\* error or warning cites (desc is what the caller puts in the description), and n,
\* which tells a call from the one before it.  A callback that returns nothing
\* returns None.
Raised == [via |-> "raised", target |-> "", needs_wrap |-> FALSE]
NoRet == [op |-> "", arg |-> NoVal, edge |-> FALSE, res |-> None, diag |-> "", n |-> 0]
Ret(op, arg, edge, level, res, desc, prev) ==
    [op |-> op, arg |-> arg, edge |-> edge,
     res |-> IF edge /\ sharp_edge_effect(level) = "raise" THEN Raised ELSE res,
     diag |-> IF edge /\ sharp_edge_effect(level) # "none" THEN desc ELSE "",
     n |-> 1 - prev.n]

(***************************************************************************)
(* thunder/core/script/python_ir.py: the stack effect of an instruction,   *)
(* as (number of values popped, number of values pushed).                  *)
(***************************************************************************)
Effect(pop, push) == [kind |-> "effect", pop |-> pop, push |-> push]
ValueError == [kind |-> "ValueError", pop |-> 0, push |-> 0]

\* fixed_stack_effects_detail, as rows <<opname, pop, push>>
FixedRows == <<
    <<"NOP", 0, 0>>, <<"EXTENDED_ARG", 0, 0>>, <<"POP_TOP", 1, 0>>, <<"ROT_TWO", 2, 2>>,
    <<"ROT_THREE", 3, 3>>, <<"ROT_FOUR", 4, 4>>, <<"DUP_TOP", 1, 2>>,
    <<"DUP_TOP_TWO", 2, 4>>, <<"UNARY_POSITIVE", 1, 1>>, <<"UNARY_NOT", 1, 1>>,
    <<"UNARY_INVERT", 1, 1>>, <<"SET_ADD", 2, 1>>, <<"LIST_APPEND", 2, 1>>,
    <<"MAP_ADD", 3, 1>>, <<"BINARY_POWER", 2, 1>>, <<"BINARY_MULTIPLY", 2, 1>>,
    <<"BINARY_MATRIX_MULTIPLY", 2, 1>>, <<"BINARY_MODULO", 2, 1>>, <<"BINARY_ADD", 2, 1>>,
    <<"BINARY_SUBTRACT", 2, 1>>, <<"BINARY_SUBSCR", 2, 1>>,
    <<"BINARY_FLOOR_DIVIDE", 2, 1>>, <<"BINARY_TRUE_DIVIDE", 2, 1>>,
    <<"INPLACE_FLOOR_DIVIDE", 2, 1>>, <<"INPLACE_TRUE_DIVIDE", 2, 1>>,
    <<"INPLACE_ADD", 2, 1>>, <<"INPLACE_SUBTRACT", 2, 1>>, <<"INPLACE_MULTIPLY", 2, 1>>,
    <<"INPLACE_MATRIX_MULTIPLY", 2, 1>>, <<"INPLACE_MODULO", 2, 1>>,
    <<"BINARY_LSHIFT", 2, 1>>, <<"BINARY_RSHIFT", 2, 1>>, <<"BINARY_AND", 2, 1>>,
    <<"BINARY_XOR", 2, 1>>, <<"BINARY_OR", 2, 1>>, <<"INPLACE_POWER", 2, 1>>,
    <<"INPLACE_LSHIFT", 2, 1>>, <<"INPLACE_RSHIFT", 2, 1>>, <<"INPLACE_AND", 2, 1>>,
    <<"INPLACE_XOR", 2, 1>>, <<"INPLACE_OR", 2, 1>>, <<"STORE_SUBSCR", 3, 0>>,
    <<"DELETE_SUBSCR", 2, 0>>, <<"GET_ITER", 1, 1>>, <<"PRINT_EXPR", 1, 0>>,
    <<"LOAD_BUILD_CLASS", 0, 1>>, <<"RETURN_VALUE", 1, 0>>, <<"IMPORT_STAR", 1, 0>>,
    <<"SETUP_ANNOTATIONS", 0, 0>>, <<"YIELD_VALUE", 1, 1>>, <<"YIELD_FROM", 2, 1>>,
    <<"POP_BLOCK", 0, 0>>, <<"POP_EXCEPT", 3, 0>>, <<"STORE_NAME", 1, 0>>,
    <<"DELETE_NAME", 0, 0>>, <<"STORE_ATTR", 2, 0>>, <<"DELETE_ATTR", 1, 0>>,
    <<"STORE_GLOBAL", 1, 0>>, <<"DELETE_GLOBAL", 0, 0>>, <<"LOAD_CONST", 0, 1>>,
    <<"LOAD_NAME", 0, 1>>, <<"LOAD_ATTR", 1, 1>>, <<"COMPARE_OP", 2, 1>>,
    <<"IS_OP", 2, 1>>, <<"CONTAINS_OP", 2, 1>>, <<"JUMP_IF_NOT_EXC_MATCH", 2, 0>>,
    <<"IMPORT_NAME", 2, 1>>, <<"IMPORT_FROM", 1, 2>>, <<"JUMP_FORWARD", 0, 0>>,
    <<"JUMP_ABSOLUTE", 0, 0>>, <<"POP_JUMP_IF_FALSE", 1, 0>>, <<"POP_JUMP_IF_TRUE", 1, 0>>,
    <<"LOAD_GLOBAL", 0, 1>>, <<"RERAISE", 3, 0>>, <<"WITH_EXCEPT_START", 7, 8>>,
    <<"LOAD_FAST", 0, 1>>, <<"STORE_FAST", 1, 0>>, <<"DELETE_FAST", 0, 0>>,
    <<"LOAD_CLOSURE", 0, 1>>, <<"LOAD_DEREF", 0, 1>>, <<"LOAD_CLASSDEREF", 0, 1>>,
    <<"STORE_DEREF", 1, 0>>, <<"DELETE_DEREF", 0, 0>>, <<"GET_AWAITABLE", 1, 1>>,
    <<"BEFORE_ASYNC_WITH", 1, 2>>, <<"GET_AITER", 1, 1>>, <<"GET_ANEXT", 1, 2>>,
    <<"GET_YIELD_FROM_ITER", 1, 1>>, <<"END_ASYNC_FOR", 7, 0>>, <<"LOAD_METHOD", 1, 2>>,
    <<"LOAD_ASSERTION_ERROR", 0, 1>>, <<"LIST_TO_TUPLE", 1, 1>>, <<"GEN_START", 1, 0>>,
    <<"LIST_EXTEND", 2, 1>>, <<"SET_UPDATE", 2, 1>>, <<"DICT_MERGE", 2, 1>>,
    <<"DICT_UPDATE", 2, 1>>, <<"COPY_DICT_WITHOUT_KEYS", 2, 2>>, <<"MATCH_CLASS", 3, 2>>,
    <<"GET_LEN", 1, 2>>, <<"MATCH_MAPPING", 1, 2>>, <<"MATCH_SEQUENCE", 1, 2>>,
    <<"MATCH_KEYS", 2, 4>>
>>

FixedOpnames == {FixedRows[i][1] : i \in DOMAIN FixedRows}

\* fixed_stack_effects_detail[opname]
fixed_stack_effects_detail(opname) ==
    LET row == FixedRows[CHOOSE i \in DOMAIN FixedRows : FixedRows[i][1] = opname]
    IN  Effect(row[2], row[3])

\* (oparg & mask) != 0 for a mask of one bit, as the integer Python adds
Bit(oparg, mask) == IF (oparg \div mask) % 2 = 1 THEN 1 ELSE 0

\* A stack effect that gives unknown instructions no effect.
stack_effect_detail_lenient(opname, oparg, jump) ==
    IF opname \in FixedOpnames THEN fixed_stack_effects_detail(opname)
    ELSE Effect(0, 0)

stack_effect_detail(opname, oparg, jump) ==
    IF opname \in FixedOpnames THEN fixed_stack_effects_detail(opname)
    ELSE IF opname = "ROT_N" THEN Effect(oparg, oparg)
    ELSE IF opname \in {"BUILD_TUPLE", "BUILD_LIST", "BUILD_SET", "BUILD_STRING"}
    THEN Effect(oparg, 1)
    ELSE IF opname = "BUILD_MAP" THEN Effect(2 * oparg, 1)
    ELSE IF opname = "BUILD_CONST_KEY_MAP" THEN Effect(oparg + 1, 1)
    ELSE IF opname \in {"JUMP_IF_TRUE_OR_POP", "JUMP_IF_FALSE_OR_POP"}
    THEN (IF jump THEN Effect(1, 1) ELSE Effect(1, 0))
    ELSE IF opname = "SETUP_FINALLY" THEN (IF jump THEN Effect(0, 6) ELSE Effect(0, 0))
    ELSE IF opname = "RAISE_VARARGS" THEN Effect(oparg, 0)
    ELSE IF opname = "CALL_FUNCTION" THEN Effect(oparg + 1, 1)
    ELSE IF opname = "CALL_METHOD" THEN Effect(oparg + 2, 1)
    ELSE IF opname = "CALL_FUNCTION_KW" THEN Effect(oparg + 2, 1)
    ELSE IF opname = "CALL_FUNCTION_EX" THEN Effect(2 + Bit(oparg, 1), 1)
    ELSE IF opname = "MAKE_FUNCTION"
    THEN Effect(2 + Bit(oparg, 1) + Bit(oparg, 2) + Bit(oparg, 4) + Bit(oparg, 8), 1)
    ELSE IF opname = "BUILD_SLICE" THEN Effect(oparg, 1)
    ELSE IF opname = "SETUP_ASYNC_WITH" THEN (IF jump THEN Effect(1, 6) ELSE Effect(0, 0))
    ELSE IF opname = "FORMAT_VALUE" THEN (IF Bit(oparg, 4) = 1 THEN Effect(2, 1) ELSE Effect(1, 1))
    ELSE IF opname = "UNPACK_SEQUENCE" THEN Effect(1, oparg)
    ELSE IF opname = "UNPACK_EX" THEN Effect(1, (oparg % 256) + (oparg \div 256) + 1)
    ELSE IF opname = "FOR_ITER" THEN (IF jump THEN Effect(1, 0) ELSE Effect(0, 1))
    ELSE ValueError

\* The opnames stack_effect_detail is called with: those of the table, those it
\* computes from the argument, and some it does not know.
ComputedOpnames ==
    {"ROT_N", "BUILD_TUPLE", "BUILD_LIST", "BUILD_SET", "BUILD_STRING", "BUILD_MAP",
     "BUILD_CONST_KEY_MAP", "JUMP_IF_TRUE_OR_POP", "JUMP_IF_FALSE_OR_POP", "SETUP_FINALLY",
     "RAISE_VARARGS", "CALL_FUNCTION", "CALL_METHOD", "CALL_FUNCTION_KW", "CALL_FUNCTION_EX",
     "MAKE_FUNCTION", "BUILD_SLICE", "SETUP_ASYNC_WITH", "FORMAT_VALUE", "UNPACK_SEQUENCE",
     "UNPACK_EX", "FOR_ITER"}
UnknownOpnames == {"SETUP_WITH", "BINARY_OP", "CACHE", "", "nop"}
Opnames == FixedOpnames \cup ComputedOpnames \cup UnknownOpnames

\* The arguments: the small ones, and some with bits above the low byte.
Opargs == 0..MaxOparg \cup {256 * h + l : h \in 1..2, l \in 0..1}

NoStackEffectCall == [called |-> FALSE, opname |-> "", oparg |-> 0, jump |-> FALSE, res |-> ValueError]

(***************************************************************************)
(* thunder/core/script/python_ir.py, generate_function.  A graph is a list *)
(* of blocks, a block a list of nodes; of a node the function reads        *)
(* whether its opcode is in dis.hasjabs, in dis.hasjrel or in neither, and *)
(* its jump targets (blocks, by their index in gr.blocks).  Addresses and  *)
(* jump arguments count instructions, as in Python 3.10.                   *)
(***************************************************************************)
GNode(kind, targets) == [kind |-> kind, targets |-> targets]

\* The blocks of a graph of nb blocks; the last node of a block is a return, or a
\* node with one or two jump targets.
GBlocks(nb) ==
    {body \o <<last>> :
        body \in UNION {[1..n -> {GNode("plain", <<>>)}] : n \in 0..MaxBody},
        last \in {GNode("plain", <<>>)} \cup
                 {GNode(kind, <<t>>) : kind \in {"plain", "jabs", "jrel"}, t \in 1..nb} \cup
                 {GNode(kind, <<t, u>>) : kind \in {"jabs", "jrel"}, t \in 1..nb, u \in 1..nb}}

Graphs == UNION {[1..nb -> GBlocks(nb)] : nb \in 1..MaxBlocks}

\* for bl in gr.blocks: for n in bl.nodes: the nodes in the order of the two loops
RECURSIVE NodesFrom(_, _)
NodesFrom(gr, b) ==
    IF b > Len(gr) THEN <<>>
    ELSE [k \in 1..Len(gr[b]) |-> [b |-> b, k |-> k, n |-> gr[b][k]]] \o NodesFrom(gr, b + 1)

AllNodes(gr) == NodesFrom(gr, 1)

\* address_map, as the list of the addresses of AllNodes(gr);
\* ctr += 2 if len(n.jump_targets) == 2 else 1
RECURSIVE address_list(_, _, _)
address_list(nodes, i, ctr) ==
    IF i > Len(nodes) THEN <<>>
    ELSE <<ctr>> \o address_list(nodes, i + 1, ctr + (IF Len(nodes[i].n.targets) = 2 THEN 2 ELSE 1))

address_map(gr) == address_list(AllNodes(gr), 1, 0)

\* The position in AllNodes(gr) of bl.nodes[0] for the block of index t.
FirstNode(gr, t) == CHOOSE i \in DOMAIN AllNodes(gr) : AllNodes(gr)[i].b = t /\ AllNodes(gr)[i].k = 1

\* address_map[target.nodes[0]]
TargetAddress(gr, t) == address_map(gr)[FirstNode(gr, t)]

Instr(kind, arg, node) == [kind |-> kind, arg |-> arg, node |-> node]

\* The argument of the instruction of node i.
jump_arg(gr, i) ==
    IF AllNodes(gr)[i].n.kind = "jabs"
    THEN TargetAddress(gr, AllNodes(gr)[i].n.targets[Len(AllNodes(gr)[i].n.targets)])
    ELSE IF AllNodes(gr)[i].n.kind = "jrel"
    THEN address_map(gr)[i] - address_map(gr)[i]
    ELSE 0

\* The instructions emitted for node i: its own, and JUMP_ABSOLUTE to the first
\* jump target when it has two.
emit_node(gr, i) ==
    <<Instr(AllNodes(gr)[i].n.kind, jump_arg(gr, i), i)>> \o
    (IF Len(AllNodes(gr)[i].n.targets) > 1
     THEN <<Instr("jabs", TargetAddress(gr, AllNodes(gr)[i].n.targets[1]), 0)>>
     ELSE <<>>)

RECURSIVE emit_from(_, _)
emit_from(gr, i) ==
    IF i > Len(AllNodes(gr)) THEN <<>> ELSE emit_node(gr, i) \o emit_from(gr, i + 1)

\* bc, as a list of instructions (one opcode and one argument byte each)
bytecode(gr) == emit_from(gr, 1)

generate_function(gr) ==
    [called |-> TRUE, gr |-> gr, address_map |-> address_map(gr), bc |-> bytecode(gr)]

(***************************************************************************)
(* thunder/core/script/passes.py, split_block.  Blocks and nodes are       *)
(* objects, compared by identity: here numbers.  The graph starts as       *)
(*   block 1 = [node 1, node 2, node 3], node 3 jumping to block 2,        *)
(*   block 2 = [node 4, node 5];                                           *)
(* block 0 and node 0 stand for a block and a node of another graph.       *)
(***************************************************************************)
FirstBlocks == 2
FirstNodes == 5
BlockIds == 0..(FirstBlocks + MaxSplits)
NodeIds == 0..(FirstNodes + MaxSplits)

FirstGraph ==
    [blocks |-> <<1, 2>>,
     nodes |-> [b \in BlockIds |-> IF b = 1 THEN <<1, 2, 3>> ELSE IF b = 2 THEN <<4, 5>> ELSE <<>>],
     jump_targets |-> [n \in NodeIds |-> IF n = 3 THEN <<2>> ELSE <<>>],
     jump_sources |-> [b \in BlockIds |-> IF b = 2 THEN <<3>> ELSE <<>>],
     n_blocks |-> FirstBlocks,
     n_nodes |-> FirstNodes]

\* i = 0; while i < len(seq) and seq[i] is not x: i += 1  (positions from 1 here)
find(seq, x) ==
    IF \E i \in DOMAIN seq : seq[i] = x
    THEN CHOOSE i \in DOMAIN seq : seq[i] = x /\ \A k \in 1..(i - 1) : seq[k] # x
    ELSE Len(seq) + 1

\* seq.insert(i, x) with i counted from 0
insert(seq, i, x) == SubSeq(seq, 1, i) \o <<x>> \o SubSeq(seq, i + 1, Len(seq))

\* The graph after the body of split_block, bl found at position i and n at j.
split_at(g, bl, i, j) ==
    [blocks |-> insert(g.blocks, i, g.n_blocks + 1),
     nodes |-> [g.nodes EXCEPT ![g.n_blocks + 1] = SubSeq(g.nodes[bl], j, Len(g.nodes[bl])),
                               ![bl] = SubSeq(g.nodes[bl], 1, j - 1) \o <<g.n_nodes + 1>>],
     jump_targets |-> [g.jump_targets EXCEPT ![g.n_nodes + 1] = <<g.n_blocks + 1>>],
     jump_sources |-> [g.jump_sources EXCEPT ![g.n_blocks + 1] = <<g.n_nodes + 1>>],
     n_blocks |-> g.n_blocks + 1,
     n_nodes |-> g.n_nodes + 1]

\* A split that puts the new block at the end of gr.blocks.
split_block_appended(g, bl, n) ==
    IF find(g.blocks, bl) > Len(g.blocks)
    THEN [gr |-> g, res |-> "AssertionError: block not found"]
    ELSE IF find(g.nodes[bl], n) > Len(g.nodes[bl])
    THEN [gr |-> g, res |-> "AssertionError: node not found"]
    ELSE [gr |-> split_at(g, bl, Len(g.blocks), find(g.nodes[bl], n)), res |-> "nbl"]

\* split_block(gr, bl, n): the graph afterwards and what the call gave
split_block(g, bl, n) ==
    IF find(g.blocks, bl) > Len(g.blocks)
    THEN [gr |-> g, res |-> "AssertionError: block not found"]
    ELSE IF find(g.nodes[bl], n) > Len(g.nodes[bl])
    THEN [gr |-> g, res |-> "AssertionError: node not found"]
    ELSE [gr |-> split_at(g, bl, find(g.blocks, bl), find(g.nodes[bl], n)), res |-> "nbl"]

(***************************************************************************)
(* thunder/executors/nvfuser.py, _fuse.  A trace has two input proxies,    *)
(* 1 and 2; its symbols take one proxy each, an input or the result of an  *)
(* earlier symbol, and symbol k gives the new proxy TraceInputs + k; its   *)
(* flattened outputs are proxies and the constant 0.                       *)
(***************************************************************************)
TraceInputs == 2
TraceConstant == 0
ResultOf(k) == TraceInputs + k

FuseTraces ==
    UNION {[symbols : {a \in [1..n -> 1..(TraceInputs + n)] : \A k \in 1..n : a[k] < ResultOf(k)},
            outputs : UNION {[1..m -> {TraceConstant} \cup 1..(TraceInputs + n)] : m \in 1..MaxOutputs}] :
           n \in 0..MaxFuseSyms}

\* _get_nv / _add_input for a proxy x: proxy_to_nvfuser_map[x] is "" while x is not
\* in the map, "input" for what fd.define_tensor gave and "op" for the result of an
\* nvFuser operation.
get_nv(f, x) ==
    IF f.proxy_to_nvfuser_map[x] = ""
    THEN [proxy_to_nvfuser_map |-> [f.proxy_to_nvfuser_map EXCEPT ![x] = "input"],
          used_inputs |-> Append(f.used_inputs, x)]
    ELSE f

\* The loop over trace.symbols: the argument of a symbol is looked up, its result is
\* associated with what the nvFuser operation gave.
RECURSIVE fuse_symbols(_, _, _)
fuse_symbols(f, symbols, k) ==
    IF k > Len(symbols) THEN f
    ELSE fuse_symbols([get_nv(f, symbols[k]) EXCEPT !.proxy_to_nvfuser_map[ResultOf(k)] = "op"],
                      symbols, k + 1)

\* The entries of outputs: an nvOutput with its position, or the output itself.
NvOutput(position) == [kind |-> "nvOutput", position |-> position, o |-> 0]
PassedThrough(o) == [kind |-> IF o = TraceConstant THEN "constant" ELSE "proxy", position |-> 0, o |-> o]

\* One turn of the loop over flat_outputs; added holds the proxies whose nvFuser
\* objects fd.add_output was given, nvfuser_output_ctr is its length, and
\* proxy_to_nvOutput_map[o] is -1 while o is not in the map.
fuse_output(map, s, o) ==
    IF o # TraceConstant /\ map[o] # ""
    THEN IF s.proxy_to_nvOutput_map[o] = -1
         THEN [outputs |-> Append(s.outputs, NvOutput(Len(s.added))),
               added |-> Append(s.added, o),
               proxy_to_nvOutput_map |-> [s.proxy_to_nvOutput_map EXCEPT ![o] = Len(s.added)],
               has_proxy_output |-> TRUE]
         ELSE [s EXCEPT !.outputs = Append(s.outputs, NvOutput(s.proxy_to_nvOutput_map[o])),
                        !.has_proxy_output = TRUE]
    ELSE [s EXCEPT !.outputs = Append(s.outputs, PassedThrough(o)),
                   !.has_proxy_output = s.has_proxy_output \/ o # TraceConstant]

RECURSIVE fuse_outputs(_, _, _, _)
fuse_outputs(map, s, flat_outputs, idx) ==
    IF idx > Len(flat_outputs) THEN s
    ELSE fuse_outputs(map, fuse_output(map, s, flat_outputs[idx]), flat_outputs, idx + 1)

NoFusion ==
    [called |-> FALSE, trace |-> [symbols |-> <<>>, outputs |-> <<>>],
     used_inputs |-> <<>>, outputs |-> <<>>, added |-> <<>>, has_proxy_output |-> FALSE]

fuse(trace) ==
    LET trace_proxies == 1..(TraceInputs + Len(trace.symbols))
        f == fuse_symbols([proxy_to_nvfuser_map |-> [p \in trace_proxies |-> ""], used_inputs |-> <<>>],
                          trace.symbols, 1)
        s == fuse_outputs(f.proxy_to_nvfuser_map,
                          [outputs |-> <<>>, added |-> <<>>,
                           proxy_to_nvOutput_map |-> [p \in trace_proxies |-> -1],
                           has_proxy_output |-> FALSE],
                          trace.outputs, 1)
    IN  [called |-> TRUE, trace |-> trace, used_inputs |-> f.used_inputs,
         outputs |-> s.outputs, added |-> s.added, has_proxy_output |-> s.has_proxy_output]

Init ==
    /\ fu = NoFusion
    /\ sg = [gr |-> FirstGraph, call |-> [bl |-> 0, n |-> 0, res |-> "", k |-> 0]]
    /\ se = NoStackEffectCall
    /\ gen = [called |-> FALSE, gr |-> <<>>, address_map |-> <<>>, bc |-> <<>>]
    /\ pc = "start"
    /\ err = ""
    /\ proxies = <<>>
    /\ wrapped = <<>>
    /\ constraints = <<>>
    /\ comp_names = {}
    /\ computation = <<>>
    /\ emitted = <<>>
    /\ comp_inputs = <<>>
    /\ prologue = <<>>
    /\ pro_names = {}
    /\ pro_outputs = <<>>
    /\ comp_sig = NoSig
    /\ warnings = 0
    /\ cv = NoCtx
    /\ frames = <<>>
    /\ cache_option = ""
    /\ ret = NoRet

\* meso_thunder_interpreter up to the call of the jitted function
MesoStart(co, level) ==
    /\ pc = "start"
    /\ IF ~cache_option_supported(co)
       THEN /\ pc' = "error"
            /\ err' = "NotImplementedError"
            /\ UNCHANGED <<cv, frames>>
       ELSE LET s == set_minimal_ctx(cv, MesoCtx(1, level))
            IN  /\ pc' = "interp"
                /\ cv' = s.value
                /\ frames' = <<Frame("meso", s, cv)>>
                /\ UNCHANGED err
    /\ cache_option' = co
    /\ UNCHANGED <<proxies, wrapped, constraints, comp_names, computation, emitted,
                   comp_inputs, prologue, pro_names, pro_outputs, comp_sig, warnings, ret>>
    /\ UNCHANGED rest_vars

\* An exception leaves the jitted function: the finally clause resets the context.
Abort(e) ==
    /\ pc' = "error"
    /\ err' = e
    /\ cv' = reset_minimal_ctx(cv, Last(frames).tok)
    /\ frames' = SubSeq(frames, 1, Len(frames) - 1)

\* _meso_sharp_edge, called from a callback of the running interpretation
meso_sharp_edge ==
    IF sharp_edge_effect(cv.sharp_edges) = "raise"
    THEN /\ Abort("AssertionError")
         /\ UNCHANGED warnings
    ELSE /\ warnings' = IF sharp_edge_effect(cv.sharp_edges) = "warn"
                        THEN warnings + 1 ELSE warnings
         /\ UNCHANGED <<pc, err, cv, frames>>

\* _lit_wrap_callback(value)
LitWrapCallback(v) ==
    /\ pc = "interp"
    /\ Len(wrapped) < MaxWraps
    /\ LET b == lit_wrap_branch(v)
           p == Len(proxies) + 1
       IN  IF b.proxy # ""
           THEN /\ proxies' = Append(proxies,
                        [name |-> make_name(Len(proxies)), ty |-> b.proxy, hist |-> v.prov])
                /\ comp_names' = comp_names \cup {make_name(Len(proxies))}
                /\ wrapped' = Append(wrapped, [val |-> v, proxy |-> p, by |-> "wrap"])
                /\ constraints' = Append(constraints,
                        [prim |-> b.prim, args |-> constraint_args(v, p)])
                /\ UNCHANGED <<pc, err, cv, frames, warnings>>
           ELSE /\ wrapped' = Append(wrapped, [val |-> v, proxy |-> 0, by |-> ""])
                /\ IF b.edge THEN meso_sharp_edge
                   ELSE UNCHANGED <<pc, err, cv, frames, warnings>>
                /\ UNCHANGED <<proxies, comp_names, constraints>>
    /\ ret' = Ret("wrap", v, lit_wrap_branch(v).edge, cv.sharp_edges, None, v.ty, ret)
    /\ UNCHANGED <<computation, emitted, comp_inputs, prologue, pro_names, pro_outputs, comp_sig,
                   cache_option>>
    /\ UNCHANGED rest_vars

\* _lit_getattr_lookaside returning the wrapped value i, a number or a string that
\* holds no proxy yet, for the attribute called name
LitGetattrLookaside(i, name) ==
    /\ pc = "interp"
    /\ i \in DOMAIN wrapped
    /\ wrapped[i].proxy = 0
    /\ ~wrapped[i].val.is_proxy
    /\ wrapped[i].val.ty \in {"float", "int", "complex", "str"}
    /\ IF name \in comp_names
       THEN /\ Abort("ValueError")
            /\ UNCHANGED <<proxies, comp_names, wrapped>>
       ELSE /\ proxies' = Append(proxies,
                    [name |-> name,
                     ty |-> IF wrapped[i].val.ty = "str" THEN "string" ELSE "number",
                     hist |-> wrapped[i].val.prov])
            /\ comp_names' = comp_names \cup {name}
            /\ wrapped' = [wrapped EXCEPT ![i].proxy = Len(proxies) + 1, ![i].by = "getattr"]
            /\ UNCHANGED <<pc, err, cv, frames>>
    /\ UNCHANGED <<constraints, computation, emitted, comp_inputs, prologue, pro_names,
                   pro_outputs, comp_sig, warnings, cache_option, ret>>
    /\ UNCHANGED rest_vars

\* A primitive is called on proxies: a bound symbol is appended to the computation
\* trace; its output is a new proxy without history.
Arities == {1, 2}
ArgLists == UNION {[1..n -> DOMAIN proxies] : n \in Arities}

TracePrim(ids) ==
    /\ pc = "interp"
    /\ Len(computation) < MaxSyms
    /\ proxies' = Append(proxies,
            [name |-> make_name(Len(proxies)), ty |-> "tensor", hist |-> 0])
    /\ comp_names' = comp_names \cup {make_name(Len(proxies))}
    /\ computation' = Append(computation,
            Sym("prim", ProxySeq(ids), PX(Len(proxies) + 1), 0))
    /\ UNCHANGED <<pc, err, wrapped, constraints, emitted, comp_inputs, prologue,
                   pro_names, pro_outputs, comp_sig, warnings, cv, frames, cache_option, ret>>
    /\ UNCHANGED rest_vars

\* The interpreted function raises and the exception escapes it.
InterpreterRaises ==
    /\ pc = "interp"
    /\ Abort("Exception")
    /\ UNCHANGED <<proxies, wrapped, constraints, comp_names, computation, emitted,
                   comp_inputs, prologue, pro_names, pro_outputs, comp_sig, warnings, cache_option,
                   ret>>
    /\ UNCHANGED rest_vars

\* meso_thunder_interpreter once the prologue is synthesized (st) from the inputs of
\* the computation trace bsyms
Synthesized(bsyms, computation_inputs, st) ==
    /\ emitted' = bsyms
    /\ comp_inputs' = computation_inputs
    /\ IF st.err # ""
       THEN /\ pc' = "error"
            /\ err' = st.err
            /\ computation' = bsyms
            /\ UNCHANGED <<proxies, prologue, pro_names, pro_outputs, comp_sig>>
       ELSE /\ pc' = "done"
            /\ proxies' = st.proxies
            /\ prologue' = st.trace
            /\ pro_names' = st.names
            /\ pro_outputs' = computation_inputs
            /\ comp_sig' = Signature(computation_inputs, computation_inputs, st.proxies)
            /\ computation' = hoist(bsyms, computation_inputs)
            /\ UNCHANGED err

Discovered(bsyms, computation_inputs) ==
    Synthesized(bsyms, computation_inputs,
                unpack_inputs(constraints, proxies, computation_inputs))

Returned(bsyms) == Discovered(bsyms, get_computation_inputs(bsyms, proxies))

\* The jitted function returns result (a proxy, or 0 for a value that is none):
\* the rest of meso_thunder_interpreter.
MesoFinish(result) ==
    /\ pc = "interp"
    /\ cv' = reset_minimal_ctx(cv, Last(frames).tok)
    /\ frames' = SubSeq(frames, 1, Len(frames) - 1)
    /\ Returned(Append(computation,
           Sym("python_return", IF result = 0 THEN <<>> ELSE <<PX(result)>>, NoVal, 0)))
    /\ UNCHANGED <<wrapped, constraints, comp_names, warnings, cache_option, ret>>
    /\ UNCHANGED rest_vars

Next ==
    \/ \E co \in CacheOptions, level \in Levels : MesoStart(co, level)
    \/ \E v \in Values : LitWrapCallback(v)
    \/ \E i \in 1..MaxWraps, name \in AttrNames : LitGetattrLookaside(i, name)
    \/ \E ids \in ArgLists : TracePrim(ids)
    \/ InterpreterRaises
    \/ \E result \in {0} \cup DOMAIN proxies : MesoFinish(result)

Spec == Init /\ [][Next]_vars

(***************************************************************************)
(* Entry calls nested inside one another: the function being interpreted   *)
(* calls meso_thunder_interpreter or a function minimal_thunder_jit        *)
(* returned.  Only the context variable is followed here; err is the       *)
(* exception in flight in the caller of the call that ended last.          *)
(***************************************************************************)
Running == frames # <<>> /\ err = ""
NoCompile == UNCHANGED <<pc, proxies, wrapped, constraints, comp_names, computation,
                         emitted, comp_inputs, prologue, pro_names, pro_outputs, comp_sig>>
             /\ UNCHANGED rest_vars
CanCall == err = "" /\ Len(frames) < MaxDepth

\* The call returns or raises: the finally clause resets the context.
Leave ==
    /\ cv' = reset_minimal_ctx(cv, Last(frames).tok)
    /\ frames' = SubSeq(frames, 1, Len(frames) - 1)

\* meso_thunder_interpreter is called
EnterMeso(co, level) ==
    /\ CanCall
    /\ IF ~cache_option_supported(co)
       THEN /\ err' = "NotImplementedError"
            /\ UNCHANGED <<cv, frames>>
       ELSE /\ cv' = set_minimal_ctx(cv, MesoCtx(Len(frames) + 1, level)).value
            /\ frames' = Append(frames,
                   Frame("meso", set_minimal_ctx(cv, MesoCtx(Len(frames) + 1, level)), cv))
            /\ UNCHANGED err
    /\ cache_option' = co
    /\ UNCHANGED <<warnings, ret>>
    /\ NoCompile

\* fn_ of minimal_thunder_jit is called
EnterMinimal(level) ==
    /\ CanCall
    /\ cv' = set_minimal_ctx(cv, MesoCtx(Len(frames) + 1, level)).value
    /\ frames' = Append(frames,
           Frame("minimal", set_minimal_ctx(cv, MesoCtx(Len(frames) + 1, level)), cv))
    /\ UNCHANGED <<err, warnings, cache_option, ret>>
    /\ NoCompile

\* A callback or lookaside of the innermost interpretation calls _sharp_edge or
\* _meso_sharp_edge.
SharpEdgeEvent ==
    /\ Running
    /\ warnings < MaxWarnings
    /\ IF sharp_edge_effect(cv.sharp_edges) = "raise"
       THEN /\ Leave
            /\ err' = "AssertionError"
            /\ UNCHANGED warnings
       ELSE /\ warnings' = IF sharp_edge_effect(cv.sharp_edges) = "warn"
                           THEN warnings + 1 ELSE warnings
            /\ UNCHANGED <<cv, frames, err>>
    /\ UNCHANGED cache_option
    /\ NoCompile

\* A callback or lookaside of the innermost interpretation returns without a
\* sharp edge.
NoSharpEdge ==
    /\ Running
    /\ UNCHANGED <<cv, frames, err, warnings, cache_option>>
    /\ NoCompile

Innermost == Last(frames).kind

\* The interpreter of meso_thunder_interpreter asks lit_lookaside about a callee.
LitLookaside(fn) ==
    /\ Running /\ Innermost = "meso"
    /\ IF lit_lookaside_edge(fn) THEN SharpEdgeEvent ELSE NoSharpEdge
    /\ ret' = Ret("lit_lookaside", fn, lit_lookaside_edge(fn), cv.sharp_edges,
                  lit_lookaside(fn), "callee", ret)

\* The interpreter of minimal_thunder_jit asks _minimal_lookaside about a callee.
MinimalLookaside(fn) ==
    /\ Running /\ Innermost = "minimal"
    /\ NoSharpEdge
    /\ ret' = Ret("_minimal_lookaside", fn, FALSE, cv.sharp_edges,
                  minimal_lookaside(fn), "", ret)

\* The interpreter of meso_thunder_interpreter loads the global called name.
LitGlobalCallback(name) ==
    /\ Running /\ Innermost = "meso"
    /\ IF lit_global_edge(globals_dict(name)) THEN SharpEdgeEvent ELSE NoSharpEdge
    /\ ret' = Ret("_lit_global_callback", [name |-> name],
                  lit_global_edge(globals_dict(name)), cv.sharp_edges,
                  globals_dict(name), name, ret)

\* The interpreter of minimal_thunder_jit loads the global called name.
MinimalGlobalCallback(name) ==
    /\ Running /\ Innermost = "minimal"
    /\ IF minimal_global_edge(globals_dict(name)) THEN SharpEdgeEvent ELSE NoSharpEdge
    /\ ret' = Ret("_minimal_global_callback", [name |-> name],
                  minimal_global_edge(globals_dict(name)), cv.sharp_edges,
                  globals_dict(name), "a global that is not a module", ret)

\* The innermost interpreted function returns.
CallReturns ==
    /\ Running
    /\ Leave
    /\ UNCHANGED <<err, warnings, cache_option, ret>>
    /\ NoCompile

\* The innermost interpreted function raises, or lets the exception of a call it
\* made escape.
CallRaises ==
    /\ frames # <<>>
    /\ Leave
    /\ err' = IF err = "" THEN "Exception" ELSE err
    /\ UNCHANGED <<warnings, cache_option, ret>>
    /\ NoCompile

\* The caller handles the exception of the call that ended.
CallerHandles ==
    /\ err # ""
    /\ err' = ""
    /\ UNCHANGED <<cv, frames, warnings, cache_option, ret>>
    /\ NoCompile

NextCtx ==
    \/ \E co \in CacheOptions, level \in Levels : EnterMeso(co, level)
    \/ \E level \in Levels : EnterMinimal(level)
    \/ \E fn \in Callees : LitLookaside(fn)
    \/ \E meth \in ProxyMethods : LitLookaside(MethodCallee(meth))
    \/ \E fn \in Callees : MinimalLookaside(fn)
    \/ \E name \in GlobalNames : LitGlobalCallback(name)
    \/ \E name \in GlobalNames : MinimalGlobalCallback(name)
    \/ CallReturns
    \/ CallRaises
    \/ CallerHandles

SpecCtx == Init /\ [][NextCtx]_vars

(***************************************************************************)
(* One call of stack_effect_detail.                                        *)
(***************************************************************************)
StackEffectDetail(opname, oparg, jump) ==
    /\ ~se.called
    /\ se' = [called |-> TRUE, opname |-> opname, oparg |-> oparg, jump |-> jump,
              res |-> stack_effect_detail(opname, oparg, jump)]
    /\ UNCHANGED jit_vars
    /\ UNCHANGED <<gen, sg, fu>>

NextStack == \E opname \in Opnames, oparg \in Opargs, jump \in BOOLEAN :
                 StackEffectDetail(opname, oparg, jump)

SpecStack == Init /\ [][NextStack]_vars

(***************************************************************************)
(* One call of generate_function.                                          *)
(***************************************************************************)
GenerateFunction(gr) ==
    /\ ~gen.called
    /\ gen' = generate_function(gr)
    /\ UNCHANGED jit_vars
    /\ UNCHANGED <<se, sg, fu>>

NextGen == \E gr \in Graphs : GenerateFunction(gr)

SpecGen == Init /\ [][NextGen]_vars

(***************************************************************************)
(* Calls of split_block on one graph, one after another.                   *)
(***************************************************************************)
SplitBlock(bl, n) ==
    /\ sg.gr.n_blocks < FirstBlocks + MaxSplits
    /\ bl <= sg.gr.n_blocks /\ n <= sg.gr.n_nodes
    /\ sg' = [gr |-> split_block(sg.gr, bl, n).gr,
              call |-> [bl |-> bl, n |-> n, res |-> split_block(sg.gr, bl, n).res,
                        k |-> 1 - sg.call.k]]
    /\ UNCHANGED jit_vars
    /\ UNCHANGED <<se, gen, fu>>

NextSplit == \E bl \in BlockIds, n \in NodeIds : SplitBlock(bl, n)

SpecSplit == Init /\ [][NextSplit]_vars

(***************************************************************************)
(* One call of _fuse.                                                      *)
(***************************************************************************)
Fuse(trace) ==
    /\ ~fu.called
    /\ fu' = fuse(trace)
    /\ UNCHANGED jit_vars
    /\ UNCHANGED <<se, gen, sg>>

NextFuse == \E trace \in FuseTraces : Fuse(trace)

SpecFuse == Init /\ [][NextFuse]_vars

(***************************************************************************)
(* Properties of the traces a compilation returns.                         *)
(***************************************************************************)
Done == pc = "done"

\* The positions of the prologue whose symbol is an unpack symbol with output p.
UnpacksOf(p) ==
    {i \in DOMAIN prologue : prologue[i].op \in UnpackOps /\ prologue[i].out = PX(p)}

\* The proxy arguments of the symbols of a trace, flattened: <<position, argument, proxy>>.
Uses(trace) ==
    {<<i, j, trace[i].args[j].id>> : <<i, j>> \in
        {<<i, j>> \in (DOMAIN trace) \X (1..5) :
            j \in DOMAIN trace[i].args /\ IsProxy(trace[i].args[j])}}

Before(u, v) == u[1] < v[1] \/ (u[1] = v[1] /\ u[2] < v[2])

\* The first use of proxy p in a trace that uses it.
FirstUse(trace, p) ==
    CHOOSE u \in Uses(trace) : u[3] = p /\ \A v \in Uses(trace) : v[3] = p => ~Before(v, u)

\* The proxies with a history among the arguments of the symbols of a trace.
InputsOf(trace) == {u[3] : u \in {v \in Uses(trace) : proxies[v[3]].hist # 0}}

UsedInputs == InputsOf(computation)

\* The proxies mentioned by the recorded constraints.
ConstraintProxies ==
    {constraints[i].args[j].id : <<i, j>> \in
        {<<i, j>> \in (DOMAIN constraints) \X (1..2) :
            j \in DOMAIN constraints[i].args /\ IsProxy(constraints[i].args[j])}}

\* C1: in the traces a compilation returns, every proxy with a history that is an
\* argument of a symbol of the computation trace is the output of exactly one unpack
\* symbol of the prologue.
C1_EveryUsedInputUnpackedOnce ==
    Done => \A p \in UsedInputs : Cardinality(UnpacksOf(p)) = 1

\* C2: when a compilation returns, the last symbol of the prologue is its only return,
\* the returned tuple is exactly what get_computation_inputs finds in the computation
\* trace, in that order, and a proxy unpacked only for a constraint is not in it.
C2_PrologueReturnsUsedInputs ==
    Done =>
        /\ prologue # <<>>
        /\ Last(prologue).op = "python_return"
        /\ Cardinality({i \in DOMAIN prologue : prologue[i].op = "python_return"}) = 1
        /\ Last(prologue).args = ProxySeq(get_computation_inputs(computation, proxies))
        /\ \A p \in ConstraintProxies \ UsedInputs : PX(p) \notin Range(Last(prologue).args)

\* A compilation returned whose prologue unpacks a proxy only for a constraint and
\* returns another one.
C2_Witness ==
    /\ Done
    /\ pro_outputs # <<>>
    /\ \E p \in ConstraintProxies \ UsedInputs : UnpacksOf(p) # {}

\* C3: get_computation_inputs returns the proxies with a history that are arguments
\* of the symbols of the trace (the return included), each once, ordered by first use.
C3_InputsInFirstUseOrder ==
    pc \in {"done", "error"} /\ emitted # <<>> =>
        /\ Range(comp_inputs) = InputsOf(emitted)
        /\ \A i, j \in DOMAIN comp_inputs :
              i < j => /\ comp_inputs[i] # comp_inputs[j]
                       /\ Before(FirstUse(emitted, comp_inputs[i]),
                                 FirstUse(emitted, comp_inputs[j]))
        /\ \A i \in DOMAIN comp_inputs : proxies[comp_inputs[i]].hist # 0

\* Two inputs found, the later created one used first by a symbol with two arguments,
\* and one of them used again by the return.
C3_Witness ==
    /\ Done
    /\ Len(comp_inputs) = 2
    /\ comp_inputs[1] > comp_inputs[2]
    /\ \E u \in Uses(emitted) : u[1] = Len(emitted) /\ u[3] \in Range(comp_inputs)
    /\ Len(emitted[1].args) = 2

\* C4: no provenance record has more than one unpack symbol emitted for it, no proxy
\* is the output of more than one unpack symbol, and the positional-arguments root is
\* unpacked by a single unpack_trivial.
C4_NoDuplicateUnpack ==
    Done =>
        /\ \A r \in Records :
              Cardinality({i \in DOMAIN prologue : prologue[i].rec = r}) <= 1
        /\ \A p \in DOMAIN proxies : Cardinality(UnpacksOf(p)) <= 1
        /\ Cardinality({i \in DOMAIN prologue :
              prologue[i].op = "unpack_trivial" /\ Prov[prologue[i].rec].inst = "INPUT_ARGS"}) <= 1

\* The positions of the prologue that hold the assert_tensor_metadata of p.
AssertsOf(p) ==
    {i \in DOMAIN prologue :
        prologue[i].op = "assert_tensor_metadata" /\ prologue[i].args[1] = PX(p)}

\* The proxies the prologue was asked to unpack.
Unpacked == Range(pro_outputs) \cup ConstraintProxies

\* C5: every TensorProxy unpacked into the prologue has exactly one
\* assert_tensor_metadata symbol, placed right after the unpack symbol whose output
\* is that proxy.
C5_AssertFollowsUnpack ==
    Done =>
        \A p \in Unpacked :
            proxies[p].ty = "tensor" =>
                /\ Cardinality(AssertsOf(p)) = 1
                /\ \A i \in AssertsOf(p) : i > 1 /\ (i - 1) \in UnpacksOf(p)
                /\ prologue[CHOOSE i \in AssertsOf(p) : TRUE].args = <<PX(p)>> \o TensorMetadata

GuardPrims ==
    {"check_tensor_shape_and_metadata", "check_string_value", "check_number_type_and_value"}

\* The guards of the prologue, in order.
Guards == SelectSeq(prologue, LAMBDA b : b.op \in GuardPrims)
GuardPositions == {i \in DOMAIN prologue : prologue[i].op \in GuardPrims}

\* C6: the guards of the prologue are the recorded constraints, each once and in
\* recording order; they come after the unpack of every used input and before the
\* return; every proxy argument of a guard is the output of an unpack symbol placed
\* before the guard; every tensor the wrap callback proxied has its guard.
C6_ConstraintsReplayed ==
    Done =>
        /\ Len(Guards) = Len(constraints)
        /\ \A i \in DOMAIN constraints :
              Guards[i].op = constraints[i].prim /\ Guards[i].args = constraints[i].args
        /\ \A g \in GuardPositions :
              /\ g < Len(prologue)
              /\ \A p \in Range(pro_outputs) : \A i \in UnpacksOf(p) : i < g
              /\ \A j \in DOMAIN prologue[g].args :
                    IsProxy(prologue[g].args[j]) =>
                        \E i \in UnpacksOf(prologue[g].args[j].id) : i < g
        /\ \A w \in DOMAIN wrapped :
              wrapped[w].val.ty = "tensor" =>
                  \E g \in GuardPositions :
                      /\ prologue[g].op = "check_tensor_shape_and_metadata"
                      /\ prologue[g].args = <<PX(wrapped[w].proxy)>>

\* The constraints recorded for proxy p.
ConstraintsOf(p) == {c \in DOMAIN constraints : constraints[c].args[1] = PX(p)}

Safe(r) == collect_provenance_inst(r) \subseteq safe_provenance_inst

\* The constraint the wrap callback is to record for value v with proxy p.
ExpectedConstraint(v, p) ==
    CASE v.ty = "tensor" -> [prim |-> "check_tensor_shape_and_metadata", args |-> <<PX(p)>>]
      [] v.ty = "str" ->
            [prim |-> "check_string_value", args |-> <<PX(p), Lit("str", v.lit)>>]
      [] OTHER ->
            [prim |-> "check_number_type_and_value", args |-> <<PX(p), Lit(v.ty, v.lit)>>]

\* C7: a call of the wrap callback that creates a proxy registers it on the value,
\* gives it the provenance of the value as history and records exactly one
\* constraint, of the kind of the value's type; a tensor is always proxied; a number
\* or string is proxied only with safe provenance; every other call records nothing,
\* so there are as many constraints as proxies the wrap callback created.
C7_OneConstraintPerWrapProxy ==
    /\ Len(constraints) = Cardinality({i \in DOMAIN wrapped : wrapped[i].by = "wrap"})
    /\ \A i \in DOMAIN wrapped :
          /\ wrapped[i].val.ty = "tensor" => wrapped[i].by = "wrap"
          /\ wrapped[i].by = "wrap" =>
                /\ wrapped[i].proxy \in DOMAIN proxies
                /\ proxies[wrapped[i].proxy].hist = wrapped[i].val.prov
                /\ wrapped[i].val.ty \in {"tensor", "str", "int", "float", "complex"}
                /\ wrapped[i].val.ty # "tensor" => Safe(wrapped[i].val.prov)
                /\ Cardinality(ConstraintsOf(wrapped[i].proxy)) = 1
                /\ \A c \in ConstraintsOf(wrapped[i].proxy) :
                      constraints[c] = ExpectedConstraint(wrapped[i].val, wrapped[i].proxy)
          /\ wrapped[i].by # "wrap" => ConstraintsOf(wrapped[i].proxy) = {}

\* The wrap callback has proxied a constant tensor and a string, and recorded the
\* constraint of each.
C7_Witness ==
    /\ Len(wrapped) = 2
    /\ wrapped[1].val.ty = "tensor" /\ Prov[wrapped[1].val.prov].inst = "CONSTANT"
    /\ wrapped[2].val.ty = "str"
    /\ Len(constraints) = 2
    /\ constraints[2].prim = "check_string_value"

\* C8: the computation trace a compilation returns is one unpack_trivial per prologue
\* output, in that order, followed by the symbols emitted during interpretation in
\* their order, the return last.
C8_HoistIsRotation ==
    Done =>
        /\ Len(computation) = Len(pro_outputs) + Len(emitted)
        /\ \A i \in DOMAIN pro_outputs :
              /\ computation[i].op = "unpack_trivial"
              /\ computation[i].args = <<PX(pro_outputs[i])>>
        /\ \A i \in DOMAIN emitted : computation[Len(pro_outputs) + i] = emitted[i]
        /\ Last(computation).op = "python_return"
        /\ \A i \in DOMAIN emitted : emitted[i].op = "python_return" <=> i = Len(emitted)

\* A compilation returned with two prologue outputs and a traced primitive.
C8_Witness ==
    /\ Done
    /\ Len(pro_outputs) = 2
    /\ Len(emitted) = 2

\* The symbols of the two traces whose output is a proxy called name.
BindingsIn(trace, name) ==
    {i \in DOMAIN trace : IsProxy(trace[i].out) /\ proxies[trace[i].out.id].name = name}

\* C9: in the traces a compilation returns, every proxy name is the output of at
\* most one symbol of the prologue and the computation trace taken together.
C9_NamesBoundOnce ==
    Done =>
        \A p \in DOMAIN proxies :
            Cardinality(BindingsIn(prologue, proxies[p].name))
                + Cardinality(BindingsIn(computation, proxies[p].name)) <= 1

\* C10: whenever an entry call ends, by returning or by raising, the context variable
\* holds again the value it held when the call was made, which is the context of the
\* call around it when there is one; a call that is refused installs nothing.
C10_ContextRestored ==
    [][/\ Len(frames') < Len(frames) =>
             /\ cv' = Last(frames).before
             /\ frames' # <<>> => cv' = Last(frames').ctx
       /\ Len(frames') = Len(frames) => cv' = cv
       /\ Len(frames') > Len(frames) => Last(frames').before = cv /\ cv' = Last(frames').ctx
      ]_vars

\* An inner call under ERROR was ended by a sharp edge inside an outer call under
\* WARN, and the outer call sees its own context again.
C10_Witness ==
    /\ Len(frames) = 1
    /\ err = "AssertionError"
    /\ Last(frames).ctx.sharp_edges = "WARN"
    /\ cv = Last(frames).ctx

\* A call of a callback or lookaside has just been made.
Called == ret'.n # ret.n

\* What a callback or lookaside returns when no error leaves it.
NormalResult(r) ==
    IF r.op \in {"_lit_global_callback", "_minimal_global_callback"}
    THEN globals_dict(r.arg.name)
    ELSE IF r.op = "_minimal_lookaside" THEN minimal_lookaside(r.arg)
    ELSE None

\* C11: a sharp-edge event aborts the entry call with an AssertionError exactly when
\* the level of the context the innermost entry installed is ERROR; under WARN one
\* warning is issued and the operation returns its normal result; under ALLOW nothing
\* is issued and the operation returns its normal result.
C11_SharpEdgeByLevel ==
    [][/\ Called /\ ret'.edge =>
             /\ cv = Last(frames).ctx
             /\ cv.sharp_edges = "ERROR" =>
                   /\ err' = "AssertionError" /\ ret'.res = Raised
                   /\ warnings' = warnings
                   /\ Len(frames') = Len(frames) - 1
             /\ cv.sharp_edges = "WARN" =>
                   /\ err' = "" /\ ret'.res = NormalResult(ret')
                   /\ warnings' = warnings + 1
                   /\ frames' = frames
             /\ cv.sharp_edges = "ALLOW" =>
                   /\ err' = "" /\ ret'.res = NormalResult(ret')
                   /\ warnings' = warnings
                   /\ frames' = frames
       /\ Called /\ ~ret'.edge =>
             /\ err' = err /\ warnings' = warnings /\ frames' = frames
             /\ ret'.res # Raised
       /\ err' = "AssertionError" /\ err = "" =>
             Called /\ ret'.edge /\ Last(frames).ctx.sharp_edges = "ERROR"
       /\ warnings' # warnings =>
             Called /\ ret'.edge /\ Last(frames).ctx.sharp_edges = "WARN"
      ]_vars

\* Inside an entry call under ERROR, an entry call under WARN has met a sharp edge:
\* one warning was issued and the operation returned.
C11_Witness ==
    /\ Len(frames) = 2
    /\ frames[1].ctx.sharp_edges = "ERROR"
    /\ frames[2].ctx.sharp_edges = "WARN"
    /\ ret.edge /\ ret.res # Raised
    /\ warnings = 1
    /\ err = ""

\* No lookaside applies to a callee: it is no symbol or primitive-library function,
\* the explicit map has no entry for it and the default lookaside returns None.
NoLookasideApplies(fn) == ~fn.sym /\ fn.entry = "" /\ fn.dflt = ""

\* C12: lit_lookaside emits a sharp-edge event exactly when no lookaside applies to
\* the callee, the callee is opaque and it is not in the safe set; when no lookaside
\* applies and the call is not aborted it returns None.
C12_OpaqueCallSharpEdge ==
    ret.op = "lit_lookaside" =>
        /\ ret.edge <=> (NoLookasideApplies(ret.arg) /\ ret.arg.opaque /\ ~ret.arg.safe)
        /\ NoLookasideApplies(ret.arg) /\ ret.res # Raised => ret.res = None
        /\ ret.res = Raised => ret.edge
        /\ ~NoLookasideApplies(ret.arg) => ret.res \notin {None, Raised}

\* lit_lookaside was asked about an opaque callee outside the safe set under WARN:
\* it warned and returned None.
C12_Witness ==
    /\ ret.op = "lit_lookaside"
    /\ ret.edge
    /\ ret.res = None
    /\ warnings = 1

\* The objects _lit_global_callback lets through.
LitAllowList ==
    {"torch", "torch.nn.functional", "_global_backward_pre_hooks", "_global_backward_hooks",
     "_global_forward_hooks", "_global_forward_pre_hooks", "get_langctx",
     "prop_lookaside_helper"}

\* C13: a global-load callback emits a sharp-edge event exactly when the loaded value
\* is not on its allow-list (the lit callback: eight objects; the minimal callback:
\* any module); when it is not aborted it returns globals_dict[name]; under ERROR the
\* diagnostic of the lit callback names the global.
C13_GlobalLoadSharpEdge ==
    /\ ret.op = "_lit_global_callback" =>
          /\ ret.edge <=> globals_dict(ret.arg.name).id \notin LitAllowList
          /\ ret.res # Raised => ret.res = globals_dict(ret.arg.name)
          /\ ret.res = Raised => ret.edge /\ ret.diag = ret.arg.name
    /\ ret.op = "_minimal_global_callback" =>
          /\ ret.edge <=> ~globals_dict(ret.arg.name).is_module
          /\ ret.res # Raised => ret.res = globals_dict(ret.arg.name)
          /\ ret.res = Raised => ret.edge

\* Under ERROR the lit callback has refused a module that is not on its list, and
\* the diagnostic names it.
C13_Witness ==
    /\ ret.op = "_lit_global_callback"
    /\ ret.arg.name = "math"
    /\ ret.res = Raised
    /\ ret.diag = "math"
    /\ err = "AssertionError"

\* C15: both lookasides resolve a symbol or primitive-library function to itself,
\* also when the explicit map holds an entry for it; otherwise they return the entry
\* of the explicit map; otherwise what the default lookaside returns, None included.
C15_LookasidePriority ==
    ret.op \in {"lit_lookaside", "_minimal_lookaside"} /\ ret.res # Raised =>
        /\ ret.arg.sym => ret.res.via = "self" /\ ret.res.target = "callee"
        /\ ~ret.arg.sym /\ ret.arg.entry # "" => ret.res = Substitute("map", ret.arg.entry)
        /\ ~ret.arg.sym /\ ret.arg.entry = "" /\ ret.arg.dflt # "" =>
              ret.res = Substitute("default", ret.arg.dflt)
        /\ ~ret.arg.sym /\ ret.arg.entry = "" /\ ret.arg.dflt = "" => ret.res = None

\* lit_lookaside was asked about a symbol the explicit map holds an entry for.
C15_Witness ==
    /\ ret.op = "lit_lookaside"
    /\ ret.arg.sym /\ ret.arg.entry # ""
    /\ ret.res.via = "self"

NumberOrString(v) == v.ty \in {"int", "float", "complex", "str"} /\ ~v.is_proxy
Constant(v) == Prov[v.prov].inst = "CONSTANT"

\* The value is a tensor, a number, a string, a known container (modules among
\* them) or a callable.
KnownType(v) ==
    \/ v.ty = "tensor"
    \/ NumberOrString(v)
    \/ v.ty \in {"tuple", "list", "dict", "cell", "module", "set"}
    \/ v.ty = "callable"

\* The wrap callback proxied the value it was last called with.
WrapProxied == Last(wrapped).by = "wrap"

\* C14: the wrap callback emits a sharp-edge event exactly for (a) a non-constant
\* number or string whose provenance holds, anywhere in its transitive closure, a
\* tag outside the safe set and (b) a non-constant value of no known type; a number
\* or string is proxied if and only if every tag of the closure of its provenance is
\* in the safe set.
C14_WrapSharpEdges ==
    ret.op = "wrap" =>
        /\ Last(wrapped).val = ret.arg
        /\ ret.edge <=> \/ NumberOrString(ret.arg) /\ ~Constant(ret.arg) /\ ~Safe(ret.arg.prov)
                        \/ ~Constant(ret.arg) /\ ~KnownType(ret.arg)
        /\ NumberOrString(ret.arg) => (WrapProxied <=> Safe(ret.arg.prov))

AcceptedCacheOptions == {"CONSTANT_VALUES", "NO_CACHING"}

\* C16: with a cache option other than CONSTANT_VALUES and NO_CACHING
\* meso_thunder_interpreter ends with NotImplementedError, having put nothing in a
\* trace, installed no context and interpreted nothing; with an accepted option it
\* goes on to install the context and interpret the function.
C16_CacheOptionRejected ==
    /\ cache_option \in CacheOptions \ AcceptedCacheOptions =>
          /\ pc = "error" /\ err = "NotImplementedError"
          /\ cv = NoCtx /\ frames = <<>>
          /\ prologue = <<>> /\ computation = <<>> /\ emitted = <<>>
          /\ pro_names = {} /\ comp_names = {}
          /\ proxies = <<>> /\ wrapped = <<>> /\ constraints = <<>>
          /\ ret = NoRet /\ warnings = 0
    /\ cache_option \in AcceptedCacheOptions =>
          /\ pc # "start"
          /\ pc = "interp" => cv = MesoCtx(1, cv.sharp_edges) /\ Len(frames) = 1
          /\ err = "NotImplementedError" => emitted # <<>>

\* A call with SAME_INPUT was rejected.
C16_Witness ==
    /\ cache_option = "SAME_INPUT"
    /\ pc = "error"

ImplementedTags ==
    {"INPUT_ARGS", "INPUT_KWARGS", "INPUT_FN", "LOAD_ATTR", "BINARY_SUBSCR", "CONSTANT",
     "OPAQUE"}

IntOrStrConstant(r) == Prov[r].inst = "CONSTANT" /\ Prov[r].value.k \in {"int", "str"}

\* The function and the argument records of an OPAQUE record.
OpaqueFn(r) == Prov[Prov[r].inputs[1]]
OpaqueArgs(r) == Prov[Prov[r].inputs[2]].inputs
GetitemLike(r) == OpaqueFn(r).inst = "CONSTANT" /\ OpaqueFn(r).value.lit = "__getitem__"
DescriptorGet(r) ==
    OpaqueFn(r).inst = "CONSTANT" /\ OpaqueFn(r).value.lit = "GetSetDescriptorType.__get__"

\* A provenance shape the prologue synthesizer does not implement.
NotImplementedShape(r) ==
    \/ Prov[r].inst = "CONSTANT" /\ ~IntOrStrConstant(r)
    \/ Prov[r].inst \notin ImplementedTags
    \/ Prov[r].inst = "OPAQUE" /\ ~GetitemLike(r) /\ ~DescriptorGet(r)
    \/ Prov[r].inst = "BINARY_SUBSCR" /\ ~IntOrStrConstant(Prov[r].inputs[2])
    \/ Prov[r].inst = "OPAQUE" /\ GetitemLike(r) /\ ~IntOrStrConstant(OpaqueArgs(r)[1])

\* The records the unpacking of record r goes through.
Unpacks(r) ==
    IF Prov[r].inst \in {"LOAD_ATTR", "BINARY_SUBSCR"} THEN Range(Prov[r].inputs)
    ELSE IF Prov[r].inst = "OPAQUE" /\ GetitemLike(r) THEN {OpaqueArgs(r)[1], OpaqueArgs(r)[2]}
    ELSE IF Prov[r].inst = "OPAQUE" /\ DescriptorGet(r) THEN {OpaqueArgs(r)[2]}
    ELSE {}

RECURSIVE Reaches(_)
Reaches(r) == {r} \cup UNION {Reaches(q) : q \in Unpacks(r)}

\* The proxies the synthesizer is to unpack, once the interpretation has ended.
ToUnpack == Range(comp_inputs) \cup ConstraintProxies
Synthesis == pc \in {"done", "error"} /\ emitted # <<>>

\* The proxy the synthesizer unpacks first.
FirstToUnpack ==
    IF comp_inputs # <<>> THEN comp_inputs[1]
    ELSE constraints[CHOOSE i \in DOMAIN constraints :
             \A j \in DOMAIN constraints : i <= j].args[1].id

ReachesNotImplemented(p) == \E r \in Reaches(proxies[p].hist) : NotImplementedShape(r)

\* C17: a compilation never returns traces when the unpacking of a used input or of
\* a proxy of a constraint goes through a provenance shape that is not implemented;
\* when the first proxy unpacked goes through one, the compilation ends with
\* NotImplementedError; a synthesis that fails returns no traces.
C17_UnsupportedShapeRaises ==
    /\ Done => \A p \in ToUnpack : ~ReachesNotImplemented(p)
    /\ Synthesis /\ ToUnpack # {} /\ ReachesNotImplemented(FirstToUnpack) =>
          pc = "error" /\ err = "NotImplementedError"
    /\ Synthesis /\ pc = "error" => prologue = <<>> /\ pro_outputs = <<>>

\* A compilation has ended with NotImplementedError at its second input, which goes
\* through an OPAQUE call that is not implemented, after the first was unpacked.
C17_Witness ==
    /\ Synthesis /\ pc = "error" /\ err = "NotImplementedError"
    /\ Len(comp_inputs) = 2
    /\ Prov[proxies[comp_inputs[1]].hist].inst = "BINARY_SUBSCR"
    /\ ~ReachesNotImplemented(comp_inputs[1])
    /\ Prov[proxies[comp_inputs[2]].hist].inst = "OPAQUE"
    /\ ReachesNotImplemented(comp_inputs[2])

\* A trace without the bookkeeping of the records.
StripRec(trace) == [i \in DOMAIN trace |-> [trace[i] EXCEPT !.rec = 0]]

\* The proxies that existed when the interpretation ended.
InterpretedProxies == SelectSeq(proxies, LAMBDA x : x.ty # "plain")

\* The records of the object and of the index of a __getitem__ call.
GetitemObject(r) == OpaqueArgs(r)[2]
GetitemIndex(r) == OpaqueArgs(r)[1]

\* The BINARY_SUBSCR record of the same object and index.
SameSubscript(r) ==
    CHOOSE q \in Records :
        Prov[q].inst = "BINARY_SUBSCR" /\ Prov[q].inputs = <<GetitemObject(r), GetitemIndex(r)>>

\* The only proxy to unpack is p, and its provenance is an OPAQUE __getitem__ call.
OnlyOpaqueGetitem(p) ==
    /\ comp_inputs = <<p>> /\ ToUnpack = {p}
    /\ Prov[proxies[p].hist].inst = "OPAQUE" /\ GetitemLike(proxies[p].hist)
    /\ proxies[p].ty = "tensor"

\* C18: a proxy whose provenance is an OPAQUE call of __getitem__ on an object and
\* an index is unpacked by the symbols BINARY_SUBSCR(object, index) is unpacked by:
\* the object first, then unpack_getitem(object, index) binding the proxy.
C18_OpaqueGetitemAsSubscr ==
    \A p \in DOMAIN proxies :
        Synthesis /\ OnlyOpaqueGetitem(p) =>
            /\ Done
            /\ StripRec(prologue) =
                   StripRec(unpack_inputs(constraints,
                       [InterpretedProxies EXCEPT ![p].hist = SameSubscript(proxies[p].hist)],
                       comp_inputs).trace)
            /\ prologue[3].op = "unpack_getitem"
            /\ prologue[3].out = PX(p)
            /\ prologue[3].args = <<prologue[2].out, Prov[GetitemIndex(proxies[p].hist)].value>>
            /\ prologue[2].rec = GetitemObject(proxies[p].hist)

\* A compilation returned whose only input is the tensor args[0].__getitem__(0).
C18_Witness ==
    /\ Done
    /\ \E p \in DOMAIN proxies : OnlyOpaqueGetitem(p)
    /\ Len(prologue) = 6

\* The wrap callback was last called with a literal number of the interpreted code.
LiteralNumber(v) == v.ty \in {"int", "float", "complex"} /\ ~v.is_proxy /\ Constant(v)

\* C19: the wrap callback turns a literal number, a value of CONSTANT provenance,
\* into a NumberProxy and records a check_number_type_and_value constraint against
\* the literal's value.
C19_LiteralBecomesNumberProxy ==
    ret.op = "wrap" /\ LiteralNumber(ret.arg) =>
        /\ WrapProxied
        /\ proxies[Last(wrapped).proxy].ty = "number"
        /\ proxies[Last(wrapped).proxy].hist = ret.arg.prov
        /\ Last(constraints) =
               [prim |-> "check_number_type_and_value",
                args |-> constraint_args(ret.arg, Last(wrapped).proxy)]

\* The computation uses no input proxy.
NoInputProxy == comp_inputs = <<>>

\* The interpreted function called no primitive: only the return was traced.
NoPrimitiveCalls == Len(emitted) = 1 /\ emitted[1].op = "python_return"

\* C20: when the computation uses no input proxy the hoist appends and moves
\* nothing: the computation trace returned is the trace emitted, only the return
\* symbol when no primitive was called, and the prologue returns the empty tuple.
C20_NothingToHoist ==
    Done /\ NoInputProxy =>
        /\ computation = emitted
        /\ NoPrimitiveCalls =>
               Len(computation) = 1 /\ computation[1].op = "python_return"
        /\ pro_outputs = <<>>
        /\ Last(prologue).op = "python_return"
        /\ Last(prologue).args = <<>>

\* A compilation returned for a function without inputs that calls no primitive.
C20_Witness == Done /\ NoInputProxy /\ NoPrimitiveCalls /\ Len(computation) = 1

\* The symbol list after the rotation of the hoist ran once more over it.
RotatedAgain == rotate(computation, Len(pro_outputs))

\* The symbol list after the whole hoist, the appending of the unpacks and the
\* rotation, ran once more over it.
HoistedAgain == hoist(computation, pro_outputs)

\* C21: running the hoist again on a computation trace that is already hoisted
\* leaves the symbol list unchanged.
C21_HoistIdempotent ==
    Done => RotatedAgain = computation \/ HoistedAgain = computation

\* lit_lookaside was last asked about a proxy method.
ProxyMethodCall == ret.op = "lit_lookaside" /\ "meth" \in DOMAIN ret.arg

\* C23: the lookaside returned for a NumberProxy or TensorProxy method of the lit
\* lookaside map performs that same method: __le__ performs __le__, __ge__ performs
\* __ge__, and likewise the others.
C23_ProxyMethodsMapToThemselves ==
    ProxyMethodCall /\ ret.res # Raised =>
        /\ ret.res.via = "map"
        /\ ret.res.target = ret.arg.meth

\* The unpack symbols of the prologue emitted for OPAQUE records.
OpaqueUnpacks ==
    {i \in DOMAIN prologue :
        /\ prologue[i].op \in UnpackOps
        /\ prologue[i].rec # 0
        /\ Prov[prologue[i].rec].inst = "OPAQUE"}

\* The output of symbol i of the prologue is a fresh intermediate proxy.
BindsIntermediate(i) == proxies[prologue[i].out.id].ty = "plain"

\* The output of symbol i of the prologue is the proxy whose history its record is.
BindsOwner(i) == proxies[prologue[i].out.id].hist = prologue[i].rec

\* C24: the unpack symbol of an OPAQUE record that feeds another unpack binds a fresh
\* intermediate proxy, as the symbol of an intermediate LOAD_ATTR or BINARY_SUBSCR
\* does, and a proxy is bound only by the outermost unpack symbol of its provenance.
C24_OpaqueRewritesBindLikeTarget ==
    Done =>
        /\ \A i \in OpaqueUnpacks : BindsIntermediate(i) \/ BindsOwner(i)
        /\ \A p \in Unpacked : \A i \in UnpacksOf(p) : prologue[i].rec = proxies[p].hist

\* The symbols of the prologue that read proxies other symbols must have bound.
ReadingOps ==
    {"unpack_attr", "unpack_getitem", "assert_tensor_metadata", "python_return"} \cup GuardPrims

\* Argument j of symbol i of the prologue is the output of an earlier symbol.
BoundBefore(i, j) == \E k \in 1..(i - 1) : prologue[k].out = prologue[i].args[j]

\* C25: every proxy that is an argument of an unpack_attr, unpack_getitem,
\* assert_tensor_metadata or guard symbol of the prologue, or is in the returned
\* tuple, is the output of a symbol placed earlier in the prologue.
C25_NoDanglingReference ==
    Done =>
        \A i \in DOMAIN prologue :
            prologue[i].op \in ReadingOps =>
                \A j \in DOMAIN prologue[i].args :
                    IsProxy(prologue[i].args[j]) => BoundBefore(i, j)

\* The wrap callback has just been called.
WrapCalled == ret'.n # ret.n /\ ret'.op = "wrap"

\* The value is one the wrap callback does nothing with: a constant that is no
\* tensor, a callable or a basic container.
WrapIgnores(v) ==
    /\ v.ty # "tensor"
    /\ \/ Constant(v)
       \/ v.ty = "callable"
       \/ v.ty \in {"tuple", "list", "dict", "cell", "module", "set"}

\* The value is one the wrap callback emits a sharp-edge event for.
WrapSharpEdge(v) ==
    /\ v.ty # "tensor" /\ ~WrapIgnores(v)
    /\ \/ NumberOrString(v) /\ ~Safe(v.prov)
       \/ ~NumberOrString(v)

\* C26: a call of the wrap callback that emits a sharp-edge event, under ALLOW, WARN
\* and ERROR alike, or that does nothing, registers no proxy on the wrapped value,
\* creates no proxy and leaves the recorded constraints unchanged.
C26_WrapEdgeLeavesConstraints ==
    [][WrapCalled /\ (WrapSharpEdge(ret'.arg) \/ WrapIgnores(ret'.arg)) =>
          /\ ret'.edge <=> WrapSharpEdge(ret'.arg)
          /\ Last(wrapped').val = ret'.arg
          /\ Last(wrapped').proxy = 0
          /\ constraints' = constraints
          /\ proxies' = proxies
          /\ comp_names' = comp_names]_vars

\* The wrap callback proxied a value and then, under ERROR, emitted a sharp-edge
\* event for another: the constraint recorded before is still the only one.
C26_Witness ==
    /\ ret.op = "wrap" /\ ret.edge
    /\ WrapSharpEdge(ret.arg)
    /\ err = "AssertionError"
    /\ Len(wrapped) = 2 /\ Last(wrapped).proxy = 0
    /\ Len(constraints) = 1

\* The proxies of the tuple the prologue returns, in order.
PrologueReturns == [i \in DOMAIN Last(prologue).args |-> Last(prologue).args[i].id]

\* C27: the positional parameters of the computation trace are the tuple the
\* prologue returns, the same proxies in the same order, and the name of the i-th
\* parameter is the name of the i-th proxy returned.
C27_SignatureMatchesPrologue ==
    Done =>
        /\ Last(prologue).op = "python_return"
        /\ \A i \in DOMAIN Last(prologue).args : IsProxy(Last(prologue).args[i])
        /\ comp_sig.args = PrologueReturns
        /\ Len(comp_sig.si_args) = Len(PrologueReturns)
        /\ \A i \in DOMAIN PrologueReturns :
              comp_sig.si_args[i] = proxies[PrologueReturns[i]].name

\* A compilation returned whose computation takes two parameters of different names.
C27_Witness ==
    /\ Done
    /\ Len(comp_sig.args) = 2
    /\ comp_sig.si_args[1] # comp_sig.si_args[2]

\* The opnames whose effect depends on whether the jump is taken.
JumpDependent ==
    {"JUMP_IF_TRUE_OR_POP", "JUMP_IF_FALSE_OR_POP", "SETUP_FINALLY", "SETUP_ASYNC_WITH",
     "FOR_ITER"}

\* C22: stack_effect_detail returns a pair of counts for every opname it models and
\* raises for every other opname; for an opname of the fixed table the result
\* depends neither on oparg nor on jump; the jump flag changes the result only for
\* the five jump-dependent opnames.
C22_StackEffectTotalOnModelled ==
    se.called =>
        /\ se.opname \in FixedOpnames \cup ComputedOpnames =>
              se.res.kind = "effect" /\ se.res.pop \in Nat /\ se.res.push \in Nat
        /\ se.opname \notin FixedOpnames \cup ComputedOpnames => se.res = ValueError
        /\ se.opname \in FixedOpnames =>
              \A oparg \in Opargs, jump \in BOOLEAN :
                  stack_effect_detail(se.opname, oparg, jump) = se.res
        /\ stack_effect_detail(se.opname, se.oparg, ~se.jump) # se.res =>
              se.opname \in JumpDependent

\* stack_effect_detail was called with an opname it does not model and raised.
C22_Witness ==
    /\ se.called
    /\ se.opname = "SETUP_WITH"
    /\ se.res = ValueError

\* The nodes of the graph generate_function was called with, as positions.
GenNodes == DOMAIN AllNodes(gen.gr)
GenNode(i) == AllNodes(gen.gr)[i].n

\* The position in bc (the first is 0) of the instruction emitted for node i.
PositionOf(i) == (CHOOSE a \in DOMAIN gen.bc : gen.bc[a].node = i) - 1

\* The instruction at an address.
At(a) == gen.bc[a + 1]

\* Where control continues when the jump instruction at address a jumps.
JumpsTo(a) == IF At(a).kind = "jabs" THEN At(a).arg ELSE a + 1 + At(a).arg

\* The address of the first node of the block of index t.
BlockStart(t) == PositionOf(FirstNode(gen.gr, t))

\* C28: in the bytecode generate_function produces the address recorded for a node
\* is the position of its first instruction; the argument of every jump
\* instruction, absolute or relative, makes control continue at the first node of
\* the jump-target block of the node; a node with two jump targets is followed by
\* one JUMP_ABSOLUTE to its other target.
C28_JumpsReachTargets ==
    gen.called =>
        \A i \in GenNodes :
            /\ gen.address_map[i] = PositionOf(i)
            /\ GenNode(i).kind \in {"jabs", "jrel"} =>
                  JumpsTo(PositionOf(i)) =
                      BlockStart(GenNode(i).targets[Len(GenNode(i).targets)])
            /\ Len(GenNode(i).targets) = 2 =>
                  /\ At(PositionOf(i) + 1) = Instr("jabs", At(PositionOf(i) + 1).arg, 0)
                  /\ JumpsTo(PositionOf(i) + 1) = BlockStart(GenNode(i).targets[1])
            /\ Len(GenNode(i).targets) < 2 /\ PositionOf(i) + 2 \in DOMAIN gen.bc =>
                  At(PositionOf(i) + 1).node = i + 1

\* split_block has just been called.
SplitCalled == sg'.call.k # sg.call.k

\* The block and the node of the call, and the graph before and after it.
SplitBl == sg'.call.bl
SplitN == sg'.call.n
GraphBefore == sg.gr
GraphAfter == sg'.gr

\* bl is a block of the graph and n a node of bl.
Splittable == SplitBl \in Range(GraphBefore.blocks) /\ SplitN \in Range(GraphBefore.nodes[SplitBl])

\* The block and the jump node the call created.
NewBlock == GraphBefore.n_blocks + 1
NewJump == GraphBefore.n_nodes + 1

\* The nodes of a graph in the order of its blocks.
RECURSIVE Program(_, _)
Program(g, b) ==
    IF b > Len(g.blocks) THEN <<>> ELSE g.nodes[g.blocks[b]] \o Program(g, b + 1)

\* The position of n in bl before the call.
SplitAt == CHOOSE j \in DOMAIN GraphBefore.nodes[SplitBl] : GraphBefore.nodes[SplitBl][j] = SplitN

\* C29: split_block moves n and the nodes after it, in order, into a new block put
\* right after bl; bl keeps the nodes before n, in order, followed by one jump whose
\* only target is the new block and which is the new block's jump source; no other
\* block changes; when bl is no block of gr or n no node of bl the call fails with
\* an assertion and changes nothing.
C29_SplitBlockPreservesProgram ==
    [][SplitCalled =>
          IF Splittable
          THEN /\ sg'.call.res = "nbl"
               /\ GraphAfter.nodes[NewBlock] =
                      SubSeq(GraphBefore.nodes[SplitBl], SplitAt, Len(GraphBefore.nodes[SplitBl]))
               /\ GraphAfter.nodes[SplitBl] =
                      SubSeq(GraphBefore.nodes[SplitBl], 1, SplitAt - 1) \o <<NewJump>>
               /\ GraphAfter.jump_targets[NewJump] = <<NewBlock>>
               /\ GraphAfter.jump_sources[NewBlock] = <<NewJump>>
               /\ \E i \in DOMAIN GraphBefore.blocks :
                     /\ GraphBefore.blocks[i] = SplitBl
                     /\ GraphAfter.blocks = SubSeq(GraphBefore.blocks, 1, i) \o <<NewBlock>>
                                       \o SubSeq(GraphBefore.blocks, i + 1, Len(GraphBefore.blocks))
               /\ \A b \in Range(GraphBefore.blocks) \ {SplitBl} :
                     /\ GraphAfter.nodes[b] = GraphBefore.nodes[b]
                     /\ GraphAfter.jump_sources[b] = GraphBefore.jump_sources[b]
               /\ GraphAfter.jump_sources[SplitBl] = GraphBefore.jump_sources[SplitBl]
               /\ \A x \in 1..GraphBefore.n_nodes : GraphAfter.jump_targets[x] = GraphBefore.jump_targets[x]
               /\ SelectSeq(Program(GraphAfter, 1), LAMBDA x : x # NewJump) = Program(GraphBefore, 1)
          ELSE /\ GraphAfter = GraphBefore
               /\ sg'.call.res \in {"AssertionError: block not found",
                                    "AssertionError: node not found"}]_vars

\* A block made by an earlier split was split again at its second node.
C29_Witness ==
    /\ sg.call.res = "nbl"
    /\ sg.call.bl > FirstBlocks
    /\ Len(sg.gr.blocks) = 4
    /\ Len(sg.gr.nodes[sg.call.bl]) = 2

\* The flattened outputs of the trace _fuse was called with.
FlatOutputs == fu.trace.outputs

IsInput(o) == o \in 1..TraceInputs
IsProduced(o) == o > TraceInputs

\* The first position of o in the flattened outputs.
FirstOccurrence(o) ==
    CHOOSE i \in DOMAIN FlatOutputs :
        FlatOutputs[i] = o /\ \A k \in 1..(i - 1) : FlatOutputs[k] # o

\* The produced proxies among the outputs, in the order of their first occurrence.
ProducedOutputs ==
    SelectSeq([i \in DOMAIN FlatOutputs |->
                  IF IsProduced(FlatOutputs[i]) /\ FirstOccurrence(FlatOutputs[i]) = i
                  THEN FlatOutputs[i] ELSE 0],
              LAMBDA o : o # 0)

\* C30: an output proxy of the trace that is also an input of the trace is not made
\* a fusion output, it is passed through by name; only proxies an nvFuser operation
\* produced become fusion outputs, each added once, with positions 0, 1, 2, ... in
\* the order of their first occurrence, and every occurrence of a proxy has its
\* position.
C30_OnlyProducedAreFusionOutputs ==
    fu.called =>
        /\ Len(fu.outputs) = Len(FlatOutputs)
        /\ fu.added = ProducedOutputs
        /\ \A i \in DOMAIN FlatOutputs :
              /\ IsInput(FlatOutputs[i]) => fu.outputs[i] = PassedThrough(FlatOutputs[i])
              /\ FlatOutputs[i] = TraceConstant => fu.outputs[i] = PassedThrough(TraceConstant)
              /\ IsProduced(FlatOutputs[i]) =>
                    /\ fu.outputs[i].kind = "nvOutput"
                    /\ ProducedOutputs[fu.outputs[i].position + 1] = FlatOutputs[i]

====
